---- MODULE Spec2Model ----
(***************************************************************************)
(* Conductor utilities of ironic (ironic/conductor/utils.py): the power    *)
(* action engine, the boot device / boot mode helpers, the lifecycle error *)
(* handlers and the port group physical-network validator.                 *)
(*                                                                         *)
(* A call of an operation is one action.  The operation itself is an       *)
(* operator over a "machine" record m:                                     *)
(*   m.node    the task's in-memory node object                            *)
(*   m.db      the persisted node (what node.save() wrote last)            *)
(*   m.hw      the power state the hardware is in (what the power driver   *)
(*             reports)                                                    *)
(*   m.shared  TRUE when the task holds only a shared lock                 *)
(*   m.log     the calls made on collaborators, in order                   *)
(*   m.exc     the exception propagating, or NoExc                         *)
(*   m.ret     the value returned by the last function                     *)
(* The outcomes of the collaborators' calls (return normally or raise) are *)
(* the inputs o of a call.                                                 *)
(***************************************************************************)
EXTENDS Naturals, Integers, Sequences, FiniteSets, TLC

VARIABLES
    node,   \* the node object of the last task, as the last call left it
    db,     \* the persisted node
    hw,     \* the hardware's power state
    call,   \* the last call: [op, arg, shared, exc, log, again]
    now,    \* the clock (timeutils.utcnow)
    conf,   \* the configuration (CONF)
    ports,  \* the persisted ports: uuid -> [portgroup_id, physical_network]
    tasks   \* the workers' tasks on the node: [pc, shared, node, new_state]

vars == <<node, db, hw, call, now, conf, ports, tasks>>

(***************************************************************************)
(* Values                                                                  *)
(***************************************************************************)
\* Python's None.  states.NOSTATE is None.
None == "None"

\* A key that is not in a dict.
Absent == "<absent>"

\* ironic.common.states, as utils.py uses it.
states ==
    [POWER_ON |-> "power on", POWER_OFF |-> "power off",
     REBOOT |-> "rebooting", SOFT_REBOOT |-> "soft rebooting",
     SOFT_POWER_OFF |-> "soft power off", ERROR |-> "error",
     NOSTATE |-> None,
     ACTIVE |-> "active", ADOPTING |-> "adopting", AVAILABLE |-> "available",
     MANAGEABLE |-> "manageable",
     DEPLOYING |-> "deploying", DEPLOYWAIT |-> "wait call-back",
     DEPLOYFAIL |-> "deploy failed",
     CLEANING |-> "cleaning", CLEANWAIT |-> "clean wait",
     CLEANFAIL |-> "clean failed",
     RESCUING |-> "rescuing", RESCUEWAIT |-> "rescue wait",
     RESCUE |-> "rescue", RESCUEFAIL |-> "rescue failed"]

\* No exception is propagating.
NoExc == "none"

\* last_error and the other messages are texts: sequences of pieces.
\* NoText is Python's None, <<"">> the empty string.
NoText == <<>>

\* str(e) of an exception.
Str(e) == <<e>>

\* The exceptions that derive from exception.IronicException.
IronicExceptions ==
    {"DriverOperationError", "StorageError", "InvalidParameterValue",
     "ExclusiveLockRequired", "InvalidState", "Conflict",
     "PortgroupPhysnetInconsistent", "UnsupportedDriverExtension",
     "NoFreeConductorWorker", "PowerStateFailure", "NetworkError"}

\* The keys of node.driver_internal_info that utils.py reads or writes.
AgentKeys ==
    {"agent_url", "agent_secret_token", "agent_secret_token_pregenerated",
     "agent_cached_deploy_steps", "agent_cached_clean_steps"}

DeployKeys ==
    {"deploy_steps", "deploy_step_index", "deployment_reboot",
     "deployment_polling", "skip_current_deploy_step"}

CleanKeys ==
    {"clean_steps", "clean_step_index", "cleaning_reboot",
     "cleaning_polling", "skip_current_clean_step"}

DiiKeys ==
    AgentKeys \cup DeployKeys \cup CleanKeys
    \cup {"steps_validated", "last_power_state_change",
          "agent_last_heartbeat"}

\* str(timeutils.utcnow().isoformat()): the time as a string.
isoformat(t) == ToString(t)

\* dict.pop(key, default): the key is removed if it is there.
Pop(d, k) == [d EXCEPT ![k] = Absent]

\* node.instance_info, of which utils.py reads or writes these keys.
InstanceInfo(rescue_password, hashed_rescue_password) ==
    [rescue_password |-> rescue_password,
     hashed_rescue_password |-> hashed_rescue_password]

NoInstanceInfo == InstanceInfo(Absent, Absent)

(***************************************************************************)
(* The machine                                                             *)
(***************************************************************************)
Emit(m, e) == [m EXCEPT !.log = Append(@, e)]

Raise(m, e) == [m EXCEPT !.exc = e]

Return(m, v) == [m EXCEPT !.ret = v]

\* node.save(): the node object's fields are persisted.
save(m) == [Emit(m, <<"node", "save">>) EXCEPT !.db = m.node]

\* notify_utils.emit_power_set_notification(task, level, status, new_state)
emit_power_set_notification(m, level, status, new_state) ==
    Emit(m, <<"power_set", level, status, new_state>>)

\* A call on a driver interface that returns nothing: it is logged, and it
\* raises when its outcome is an exception.
DriverCall(m, iface, method, outcome) ==
    LET l == Emit(m, <<iface, method>>)
    IN  IF outcome = "ok" THEN l ELSE Raise(l, outcome)

\* task_manager.require_exclusive_lock: the decorated function does not run
\* under a shared lock.
require_exclusive_lock(m) ==
    IF m.shared THEN Raise(m, "ExclusiveLockRequired") ELSE m

(***************************************************************************)
(* The power driver                                                        *)
(***************************************************************************)
\* The power states a driver accepts in set_power_state.
SettablePowerStates ==
    {states.POWER_ON, states.POWER_OFF, states.SOFT_REBOOT,
     states.SOFT_POWER_OFF}

\* task.driver.power.get_power_state(task): the hardware's state, or raises.
get_power_state(m, outcome) ==
    LET l == Emit(m, <<"power", "get_power_state">>)
    IN  IF outcome = "ok" THEN Return(l, l.hw) ELSE Raise(l, outcome)

\* task.driver.power.set_power_state(task, new_state, timeout): a state that
\* is no power state to set is refused with InvalidParameterValue; otherwise
\* the hardware reaches the state, or the driver raises.
set_power_state(m, new_state, outcome) ==
    LET l == Emit(m, <<"power", "set_power_state", new_state>>)
    IN  IF new_state \notin SettablePowerStates
        THEN Raise(l, "InvalidParameterValue")
        ELSE IF outcome # "ok" THEN Raise(l, outcome)
        ELSE [l EXCEPT !.hw =
                 IF new_state \in {states.POWER_ON, states.SOFT_REBOOT}
                 THEN states.POWER_ON ELSE states.POWER_OFF]

\* task.driver.power.reboot(task, timeout): the hardware is on afterwards, or
\* the driver raises.
reboot(m, outcome) ==
    LET l == Emit(m, <<"power", "reboot">>)
    IN  IF outcome # "ok" THEN Raise(l, outcome)
        ELSE [l EXCEPT !.hw = states.POWER_ON]

(***************************************************************************)
(* Agent token                                                             *)
(***************************************************************************)
\* is_agent_token_pregenerated(node): the flag, False when it is not there.
is_agent_token_pregenerated(n) ==
    IF n.driver_internal_info["agent_secret_token_pregenerated"] = Absent
    THEN FALSE
    ELSE n.driver_internal_info["agent_secret_token_pregenerated"] = "True"

\* wipe_internal_info_on_power_off(node)
wipe_internal_info_on_power_off(n) ==
    LET i1 == Pop(n.driver_internal_info, "agent_url")
        i2 == IF ~is_agent_token_pregenerated(n)
              THEN Pop(i1, "agent_secret_token") ELSE i1
        i3 == Pop(i2, "agent_cached_deploy_steps")
        i4 == Pop(i3, "agent_cached_clean_steps")
    IN  [n EXCEPT !.driver_internal_info = i4]

(***************************************************************************)
(* The power action                                                        *)
(***************************************************************************)
\* Mutant: the reboots are not mapped to POWER_ON.
_calculate_target_state_keeps_reboot(new_state) ==
    IF new_state \in {states.POWER_ON, states.REBOOT, states.SOFT_REBOOT}
    THEN new_state
    ELSE IF new_state \in {states.POWER_OFF, states.SOFT_POWER_OFF}
    THEN states.POWER_OFF
    ELSE None

_calculate_target_state(new_state) ==
    IF new_state \in {states.POWER_ON, states.REBOOT, states.SOFT_REBOOT}
    THEN states.POWER_ON
    ELSE IF new_state \in {states.POWER_OFF, states.SOFT_POWER_OFF}
    THEN states.POWER_OFF
    ELSE None

\* Mutant: the skip path leaves last_error as it was.
_not_going_to_change_keeps_error(m, curr_state, new_state) ==
    LET n == [m.node EXCEPT !.power_state = curr_state,
                            !.target_power_state = states.NOSTATE]
    IN  emit_power_set_notification(save([m EXCEPT !.node = n]),
                                    "INFO", "END", new_state)

\* _can_skip_state_change._not_going_to_change()
_not_going_to_change(m, curr_state, new_state) ==
    LET n == [m.node EXCEPT !.last_error = NoText,
                            !.power_state = curr_state,
                            !.target_power_state = states.NOSTATE]
    IN  emit_power_set_notification(save([m EXCEPT !.node = n]),
                                    "INFO", "END", new_state)

\* Mutant: every request is checked against the state it leads to, the
\* reboots too.
_can_skip_state_change_by_target(m, new_state, o) ==
    LET q == get_power_state(m, o.get_power_state)
    IN  IF q.exc # NoExc
        THEN LET n == [q.node EXCEPT
                         !.last_error =
                             <<"Failed to change power state to",
                               new_state, "Error:">> \o Str(q.exc),
                         !.target_power_state = states.NOSTATE]
             IN  emit_power_set_notification(save([q EXCEPT !.node = n]),
                                             "ERROR", "ERROR", new_state)
        ELSE IF q.ret \in {states.POWER_ON, states.POWER_OFF}
                /\ q.ret = _calculate_target_state(new_state)
        THEN Return(_not_going_to_change(q, q.ret, new_state), TRUE)
        ELSE Return(q, FALSE)

\* Mutant: only a power on is skipped.
_can_skip_state_change_on_only(m, new_state, o) ==
    IF new_state \notin {states.POWER_ON, states.POWER_OFF,
                         states.SOFT_POWER_OFF}
    THEN Return(m, FALSE)
    ELSE
      LET q == get_power_state(m, o.get_power_state)
      IN  IF q.exc # NoExc
          THEN LET n == [q.node EXCEPT
                           !.last_error =
                               <<"Failed to change power state to",
                                 new_state, "Error:">> \o Str(q.exc),
                           !.target_power_state = states.NOSTATE]
               IN  emit_power_set_notification(save([q EXCEPT !.node = n]),
                                               "ERROR", "ERROR", new_state)
          ELSE IF q.ret = states.POWER_ON /\ new_state = states.POWER_ON
          THEN Return(_not_going_to_change(q, q.ret, new_state), TRUE)
          ELSE Return(q, FALSE)

\* _can_skip_state_change(task, new_state); m.ret is what it returns.
_can_skip_state_change(m, new_state, o) ==
    IF new_state \notin {states.POWER_ON, states.POWER_OFF,
                         states.SOFT_POWER_OFF}
    THEN Return(m, FALSE)
    ELSE
      LET q == get_power_state(m, o.get_power_state)
      IN  IF q.exc # NoExc
          THEN \* save_and_reraise_exception
               LET n == [q.node EXCEPT
                           !.last_error =
                               <<"Failed to change power state to",
                                 new_state, "Error:">> \o Str(q.exc),
                           !.target_power_state = states.NOSTATE]
               IN  emit_power_set_notification(save([q EXCEPT !.node = n]),
                                               "ERROR", "ERROR", new_state)
          ELSE
            LET curr_state == q.ret
            IN  IF curr_state = states.POWER_ON
                THEN IF new_state = states.POWER_ON
                     THEN Return(_not_going_to_change(q, curr_state,
                                                      new_state), TRUE)
                     ELSE Return(q, FALSE)
                ELSE IF curr_state = states.POWER_OFF
                THEN IF new_state \in {states.POWER_OFF,
                                       states.SOFT_POWER_OFF}
                     THEN Return(_not_going_to_change(q, curr_state,
                                                      new_state), TRUE)
                     ELSE Return(q, FALSE)
                ELSE Return(q, FALSE)

\* Mutant: the internal info is stamped and saved, and wiped by no one.
power_action_prepare_keeps_info(m, new_state) ==
    save([m EXCEPT
            !.node.target_power_state = _calculate_target_state(new_state),
            !.node.last_error = NoText,
            !.node.driver_internal_info["last_power_state_change"] =
                isoformat(now)])

\* node_power_action, lines 276-293: the target is computed and exposed, the
\* internal info is stamped and wiped, and the node is saved.
power_action_prepare(m, new_state) ==
    LET target_state == _calculate_target_state(new_state)
        n1 == [m.node EXCEPT
                 !.target_power_state = target_state,
                 !.last_error = NoText,
                 !.driver_internal_info["last_power_state_change"] =
                     isoformat(now)]
        n2 == IF target_state \in {states.POWER_OFF, states.SOFT_POWER_OFF,
                                   states.REBOOT, states.SOFT_REBOOT}
              THEN wipe_internal_info_on_power_off(n1)
              ELSE n1
    IN  save([m EXCEPT !.node = n2])

\* Mutant: the volumes are attached once the power driver has been called.
power_action_take_then_attach(m, new_state, o) ==
    LET target_state == _calculate_target_state(new_state)
        p == IF new_state # states.REBOOT
             THEN set_power_state(m, new_state, o.set_power_state)
             ELSE reboot(m, o.set_power_state)
    IN  IF p.exc # NoExc THEN p
        ELSE IF target_state = states.POWER_ON
                /\ p.node.provision_state = states.ACTIVE
        THEN DriverCall(p, "storage", "attach_volumes", o.attach_volumes)
        ELSE p

\* node_power_action, lines 296-307: the try block.
power_action_take(m, new_state, o) ==
    LET target_state == _calculate_target_state(new_state)
        a == IF target_state = states.POWER_ON
                /\ m.node.provision_state = states.ACTIVE
             THEN DriverCall(m, "storage", "attach_volumes",
                             o.attach_volumes)
             ELSE m
    IN  IF a.exc # NoExc THEN a
        ELSE IF new_state # states.REBOOT
        THEN set_power_state(a, new_state, o.set_power_state)
        ELSE reboot(a, o.set_power_state)

\* Mutant: the failure path leaves target_power_state as it was set.
power_action_failed_keeps_target(m, new_state) ==
    LET target_state == _calculate_target_state(new_state)
        n == [m.node EXCEPT
                !.last_error =
                    <<"Failed to change power state to", target_state,
                      "by", new_state, "Error:">> \o Str(m.exc)]
    IN  emit_power_set_notification(save([m EXCEPT !.node = n]),
                                    "ERROR", "ERROR", new_state)

\* Mutant: the failure path emits END after ERROR.
power_action_failed_and_ended(m, new_state) ==
    LET target_state == _calculate_target_state(new_state)
        n == [m.node EXCEPT
                !.target_power_state = states.NOSTATE,
                !.last_error =
                    <<"Failed to change power state to", target_state,
                      "by", new_state, "Error:">> \o Str(m.exc)]
    IN  emit_power_set_notification(
            emit_power_set_notification(save([m EXCEPT !.node = n]),
                                        "ERROR", "ERROR", new_state),
            "INFO", "END", new_state)

\* node_power_action, lines 308-320: the except block.
power_action_failed(m, new_state) ==
    LET target_state == _calculate_target_state(new_state)
        n == [m.node EXCEPT
                !.target_power_state = states.NOSTATE,
                !.last_error =
                    <<"Failed to change power state to", target_state,
                      "by", new_state, "Error:">> \o Str(m.exc)]
    IN  emit_power_set_notification(save([m EXCEPT !.node = n]),
                                    "ERROR", "ERROR", new_state)

\* node_power_action, lines 274-293: return when the change can be skipped
\* (sk is the task after the skip check), else set the target and save.
skip_or_prepare(sk, new_state) ==
    IF sk.exc # NoExc THEN sk
    ELSE IF sk.ret THEN sk
    ELSE power_action_prepare(sk, new_state)

\* Mutant: a StorageError of detach_volumes is raised to the caller.
power_action_succeeded_raises(m, new_state, o) ==
    LET target_state == _calculate_target_state(new_state)
        n == [m.node EXCEPT !.power_state = target_state,
                            !.target_power_state = states.NOSTATE]
        s == save([m EXCEPT !.node = n])
        u == IF s.node.instance_uuid # None
             THEN Emit(s, <<"nova", "power_update", target_state>>)
             ELSE s
        e == emit_power_set_notification(u, "INFO", "END", new_state)
    IN  IF target_state = states.POWER_OFF
           /\ e.node.provision_state = states.ACTIVE
        THEN DriverCall(e, "storage", "detach_volumes", o.detach_volumes)
        ELSE e

\* node_power_action, lines 321-346: the else block.
power_action_succeeded(m, new_state, o) ==
    LET target_state == _calculate_target_state(new_state)
        n == [m.node EXCEPT !.power_state = target_state,
                            !.target_power_state = states.NOSTATE]
        s == save([m EXCEPT !.node = n])
        u == IF s.node.instance_uuid # None
             THEN Emit(s, <<"nova", "power_update", target_state>>)
             ELSE s
        e == emit_power_set_notification(u, "INFO", "END", new_state)
    IN  IF target_state = states.POWER_OFF
           /\ e.node.provision_state = states.ACTIVE
        THEN LET d == DriverCall(e, "storage", "detach_volumes",
                                 o.detach_volumes)
             IN  \* except exception.StorageError: LOG.warning
                 IF d.exc = "StorageError"
                 THEN Emit(Raise(d, NoExc),
                           <<"LOG", "warning", "Volume detachment failed">>)
                 ELSE d
        ELSE e

\* node_power_action, lines 308-346: the except or the else block, t being
\* the task after the try block.
finish_power_action(t, new_state, o) ==
    IF t.exc # NoExc
    THEN power_action_failed(t, new_state)
    ELSE power_action_succeeded(t, new_state, o)

finish_power_action_keeping_target(t, new_state, o) ==
    IF t.exc # NoExc
    THEN power_action_failed_keeps_target(t, new_state)
    ELSE power_action_succeeded(t, new_state, o)

\* node_power_action up to line 293: the decorator, the START notification,
\* the skip check, and the target saved.  It is over when it raised or
\* skipped (ret is TRUE); else the driver is to be called.
power_action_begin(m, new_state, o) ==
    LET l == require_exclusive_lock(m)
    IN  IF l.exc # NoExc THEN l
        ELSE skip_or_prepare(
                 _can_skip_state_change(
                     emit_power_set_notification(l, "INFO", "START",
                                                 new_state),
                     new_state, o),
                 new_state)

\* Mutant: a driver failure leaves the target as it was set.
power_action_end_keeps_target(m, new_state, o) ==
    finish_power_action_keeping_target(power_action_take(m, new_state, o),
                                       new_state, o)

\* node_power_action from line 296: the driver call and what follows it.
power_action_end(m, new_state, o) ==
    finish_power_action(power_action_take(m, new_state, o), new_state, o)

\* node_power_action(task, new_state, timeout=None)
node_power_action(m, new_state, o) ==
    LET l == require_exclusive_lock(m)
    IN  IF l.exc # NoExc THEN l
        ELSE
          LET st == emit_power_set_notification(l, "INFO", "START",
                                                new_state)
              sk == _can_skip_state_change(st, new_state, o)
          IN  IF sk.exc # NoExc THEN sk
              ELSE IF sk.ret THEN sk
              ELSE
                LET t == power_action_take(power_action_prepare(sk,
                                                                new_state),
                                           new_state, o)
                IN  IF t.exc # NoExc
                    THEN power_action_failed(t, new_state)
                    ELSE power_action_succeeded(t, new_state, o)

(***************************************************************************)
(* Boot device and boot mode                                               *)
(***************************************************************************)
\* node_set_boot_device(task, device, persistent=False)
node_set_boot_device(m, device, persistent, o) ==
    LET l == require_exclusive_lock(m)
    IN  IF l.exc # NoExc THEN l
        ELSE
          LET v == DriverCall(l, "management", "validate", o.validate)
          IN  IF v.exc # NoExc THEN v
              ELSE IF v.node.provision_state # states.ADOPTING
              THEN DriverCall(v, "management", "set_boot_device",
                              o.set_boot_device)
              ELSE v

\* Mutant: the boot mode is set on a node being adopted too.
node_set_boot_mode_when_adopting(m, mode, o) ==
    LET l == require_exclusive_lock(m)
    IN  IF l.exc # NoExc THEN l
        ELSE
          LET v == DriverCall(l, "management", "validate", o.validate)
          IN  IF v.exc # NoExc THEN v
              ELSE
                LET g == DriverCall(v, "management",
                                    "get_supported_boot_modes",
                                    o.get_supported_boot_modes)
                IN  IF g.exc # NoExc THEN g
                    ELSE IF mode \notin o.boot_modes
                    THEN Raise(g, "InvalidParameterValue")
                    ELSE DriverCall(g, "management", "set_boot_mode",
                                    o.set_boot_mode)

\* node_set_boot_mode(task, mode); o.boot_modes is what the driver's
\* get_supported_boot_modes returns.
node_set_boot_mode(m, mode, o) ==
    LET l == require_exclusive_lock(m)
    IN  IF l.exc # NoExc THEN l
        ELSE IF l.node.provision_state = states.ADOPTING THEN l
        ELSE
          LET v == DriverCall(l, "management", "validate", o.validate)
          IN  IF v.exc # NoExc THEN v
              ELSE
                LET g == DriverCall(v, "management",
                                    "get_supported_boot_modes",
                                    o.get_supported_boot_modes)
                IN  IF g.exc # NoExc THEN g
                    ELSE IF mode \notin o.boot_modes
                    THEN Raise(g, "InvalidParameterValue")
                    ELSE DriverCall(g, "management", "set_boot_mode",
                                    o.set_boot_mode)

(***************************************************************************)
(* The power state for a network configuration, and the resume RPC         *)
(***************************************************************************)
\* power_on_node_if_needed, lines 863-880: p is the task after the power
\* action; the agent of the host of a Smart NIC port is waited for, and the
\* previous power state, POWER_OFF, is returned.
wait_for_host_agent_down(p, o) ==
    IF p.exc # NoExc THEN p
    ELSE IF ~o.smartnic_port THEN Return(p, states.POWER_OFF)
    ELSE LET w == DriverCall(p, "neutron", "wait_for_host_agent",
                             o.wait_for_host_agent)
         IN  IF w.exc # NoExc THEN w ELSE Return(w, states.POWER_OFF)

\* power_on_node_if_needed, line 861: b is the task after
\* node_set_boot_device.
power_on_after_boot_device(b, o) ==
    IF b.exc # NoExc THEN b
    ELSE wait_for_host_agent_down(
             node_power_action(b, states.POWER_ON, o.power_on), o)

\* power_on_node_if_needed, lines 858-880: g is the task after
\* get_power_state.
power_on_if_off(g, o) ==
    IF g.exc # NoExc THEN g
    ELSE IF g.ret = states.POWER_OFF
    THEN power_on_after_boot_device(
             node_set_boot_device(g, "bios", "False", o.boot), o)
    ELSE Return(g, None)

\* power_on_node_if_needed(task): it returns the previous power state, or
\* None if no changes were made.
power_on_node_if_needed(m, o) ==
    LET n == Emit(m, <<"network", "need_power_on">>)
    IN  IF ~o.need_power_on THEN Return(n, None)
        ELSE power_on_if_off(get_power_state(n, o.get_power_state), o)

\* restore_power_state_if_needed(task, power_state_to_restore)
restore_power_state_if_needed(m, power_state_to_restore, o) ==
    IF power_state_to_restore # None
    THEN node_power_action(Emit(m, <<"time", "sleep">>),
                           power_state_to_restore, o.restore)
    ELSE m

\* power_state_for_network_configuration, lines 910-911: b is the task
\* after the body of the with statement.  An exception of the body is
\* thrown into the generator at its yield, where nothing catches it.
leave_network_configuration(b, previous, o) ==
    IF b.exc # NoExc THEN b
    ELSE restore_power_state_if_needed(b, previous, o)

\* power_state_for_network_configuration, lines 909-910: e is the task
\* after power_on_node_if_needed; then the body of the with statement runs.
enter_network_configuration(e, o) ==
    IF e.exc # NoExc THEN e
    ELSE leave_network_configuration(DriverCall(e, "with", "body", o.body),
                                     e.ret, o)

\* with power_state_for_network_configuration(task): <body>
power_state_for_network_configuration(m, o) ==
    enter_network_configuration(power_on_node_if_needed(m, o), o)

\* Mutant: the RPC is sent before the lock is released.
notify_conductor_resume_operation_holding(m, operation, o) ==
    LET t == DriverCall(m, "rpc", "get_topic_for", o.get_topic_for)
    IN  IF t.exc # NoExc THEN t
        ELSE LET c == DriverCall(t, "rpc", "continue_node_" \o operation,
                                 o.continue_node)
             IN  IF c.exc # NoExc THEN c
                 ELSE Emit(c, <<"task", "release_resources">>)

\* notify_conductor_resume_operation(task, operation)
notify_conductor_resume_operation(m, operation, o) ==
    LET t == DriverCall(m, "rpc", "get_topic_for", o.get_topic_for)
    IN  IF t.exc # NoExc THEN t
        ELSE DriverCall(Emit(t, <<"task", "release_resources">>),
                        "rpc", "continue_node_" \o operation,
                        o.continue_node)

\* notify_conductor_resume_clean(task)
notify_conductor_resume_clean(m, o) ==
    notify_conductor_resume_operation(m, "clean", o)

\* notify_conductor_resume_deploy(task)
notify_conductor_resume_deploy(m, o) ==
    notify_conductor_resume_operation(m, "deploy", o)

(***************************************************************************)
(* The state machine and the agent's keys                                  *)
(***************************************************************************)
\* Python's truth of a text: None and the empty string are false.
Truthy(t) == t \notin {NoText, <<"">>}

\* The states that accept the fail event, and where it leads.
FailTransitions ==
    [s \in {states.DEPLOYING, states.DEPLOYWAIT, states.CLEANING,
            states.CLEANWAIT, states.RESCUING, states.RESCUEWAIT} |->
        IF s \in {states.DEPLOYING, states.DEPLOYWAIT}
        THEN [to |-> states.DEPLOYFAIL, target |-> states.ACTIVE]
        ELSE IF s \in {states.CLEANING, states.CLEANWAIT}
        THEN [to |-> states.CLEANFAIL, target |-> states.AVAILABLE]
        ELSE [to |-> states.RESCUEFAIL, target |-> states.RESCUE]]

\* task.process_event('fail', target_state=None): the state machine moves
\* the node and the node is saved; a state that does not accept the event
\* raises InvalidState.
process_event_fail(m, target_state) ==
    LET l == Emit(m, <<"process_event", "fail", target_state>>)
        ps == l.node.provision_state
    IN  IF ps \notin DOMAIN FailTransitions THEN Raise(l, "InvalidState")
        ELSE save([l EXCEPT
                     !.node.provision_state = FailTransitions[ps].to,
                     !.node.target_provision_state =
                         IF target_state # None THEN target_state
                         ELSE FailTransitions[ps].target])

\* node.refresh(): the node object is loaded again from the database.
refresh(m) == [Emit(m, <<"node", "refresh">>) EXCEPT !.node = m.db]

\* remove_agent_url(node)
remove_agent_url(n) ==
    [n EXCEPT !.driver_internal_info = Pop(@, "agent_url")]

\* wipe_token_and_url(task)
wipe_token_and_url(n) ==
    [n EXCEPT !.driver_internal_info =
        Pop(Pop(Pop(@, "agent_secret_token"),
                "agent_secret_token_pregenerated"), "agent_url")]

\* fast_track_able(task); o.should_write_image is what the storage
\* interface's should_write_image returns.
fast_track_able(m, o) ==
    /\ conf.fast_track
    /\ o.should_write_image
    /\ m.node.last_error = NoText

\* Mutant: steps_validated survives.
wipe_deploy_internal_info_keeps_validated(m, o) ==
    [m EXCEPT !.node.driver_internal_info =
        [k \in DiiKeys |->
            IF k = "deploy_steps" THEN None
            ELSE IF k \in {"agent_cached_deploy_steps", "deploy_step_index",
                           "deployment_reboot", "deployment_polling",
                           "skip_current_deploy_step"} THEN Absent
            ELSE @[k]]]

\* wipe_deploy_internal_info(task)
wipe_deploy_internal_info(m, o) ==
    LET n == IF ~fast_track_able(m, o) THEN wipe_token_and_url(m.node)
             ELSE m.node
        info == [k \in DiiKeys |->
                    IF k = "deploy_steps" THEN None
                    ELSE IF k \in {"agent_cached_deploy_steps",
                                   "deploy_step_index", "deployment_reboot",
                                   "deployment_polling",
                                   "skip_current_deploy_step",
                                   "steps_validated"} THEN Absent
                    ELSE n.driver_internal_info[k]]
    IN  [m EXCEPT !.node = [n EXCEPT !.driver_internal_info = info]]

\* Mutant: the token and the URL are wiped whatever fast track allows.
wipe_cleaning_internal_info_wipes_token(m, o) ==
    [m EXCEPT !.node.driver_internal_info =
        [k \in DiiKeys |->
            IF k = "clean_steps" THEN None
            ELSE IF k \in {"agent_cached_clean_steps", "clean_step_index",
                           "cleaning_reboot", "cleaning_polling",
                           "skip_current_clean_step", "steps_validated",
                           "agent_secret_token",
                           "agent_secret_token_pregenerated", "agent_url"}
            THEN Absent
            ELSE @[k]]]

\* wipe_cleaning_internal_info(task)
wipe_cleaning_internal_info(m, o) ==
    LET n == IF ~fast_track_able(m, o) THEN wipe_token_and_url(m.node)
             ELSE m.node
        info == [k \in DiiKeys |->
                    IF k = "clean_steps" THEN None
                    ELSE IF k \in {"agent_cached_clean_steps",
                                   "clean_step_index", "cleaning_reboot",
                                   "cleaning_polling",
                                   "skip_current_clean_step",
                                   "steps_validated"} THEN Absent
                    ELSE n.driver_internal_info[k]]
    IN  [m EXCEPT !.node = [n EXCEPT !.driver_internal_info = info]]

(***************************************************************************)
(* Fast track, the next step and the agent token                           *)
(***************************************************************************)
\* dict.get(key): None when the key is not there.
Get(d, k) == IF d[k] = Absent THEN None ELSE d[k]

\* Time is in seconds since 1970-01-01T00:00:00.  MaxTime is the latest
\* instant, and Instants are the instants that the time strings denote: the
\* epoch, and the instants up to 400 seconds before MaxTime that lie next to
\* the ends of the allowed timeouts.
MaxTime == 1000

Instants == {0} \cup {MaxTime - d : d \in {0, 1, 299, 300, 301, 400}}

\* datetime.datetime.strptime(value, "%Y-%m-%dT%H:%M:%S.%f"): the instant a
\* time string denotes.
strptime(value) == CHOOSE t \in Instants : isoformat(t) = value

\* Mutant: a value that is exactly timeout seconds old is too old.
value_within_timeout_strict(value, timeout) ==
    LET last == strptime(IF value \notin {None, ""} THEN value
                         ELSE isoformat(0))
    IN  now - timeout < last

\* value_within_timeout(value, timeout): timeutils.utcnow() is now.
value_within_timeout(value, timeout) ==
    LET last == strptime(IF value \notin {None, ""} THEN value
                         ELSE isoformat(0))
        last_valid == now - timeout
    IN  last_valid <= last

\* Mutant: the power state is read from the node's power_state field.
is_fast_track_of_recorded_power_state(m, o) ==
    Return(m, /\ fast_track_able(m, o)
              /\ value_within_timeout(
                     Get(m.node.driver_internal_info, "agent_last_heartbeat"),
                     conf.fast_track_timeout)
              /\ m.node.power_state = states.POWER_ON)

\* Mutant: the heartbeat and the power state are enough.
is_fast_track_whatever_the_error(m, o) ==
    LET p == get_power_state(m, o.get_power_state)
    IN  IF p.exc # NoExc THEN p
        ELSE Return(p, /\ value_within_timeout(
                              Get(m.node.driver_internal_info,
                                  "agent_last_heartbeat"),
                              conf.fast_track_timeout)
                       /\ p.ret = states.POWER_ON)

\* is_fast_track(task): the driver is asked for the power state only when
\* the two conditions before it hold.
is_fast_track(m, o) ==
    IF ~fast_track_able(m, o) THEN Return(m, FALSE)
    ELSE IF ~value_within_timeout(
                Get(m.node.driver_internal_info, "agent_last_heartbeat"),
                conf.fast_track_timeout)
    THEN Return(m, FALSE)
    ELSE LET p == get_power_state(m, o.get_power_state)
         IN  IF p.exc # NoExc THEN p
             ELSE Return(p, p.ret = states.POWER_ON)

\* The lists of steps that driver_internal_info holds in the model, and the
\* indexes into them, as the texts that stand for them in the dict.
StepLists == ("[]" :> <<>>) @@ ("[a]" :> <<"a">>) @@ ("[a, b]" :> <<"a", "b">>)

StepIndexes == [i \in {ToString(j) : j \in 0..2} |->
                   CHOOSE j \in 0..2 : ToString(j) = i]

\* Mutant: no steps have been started yet and there are none: None.
_get_node_next_steps_none_when_empty(m, step_type, skip_current_step) ==
    LET info == m.node.driver_internal_info
        step == IF step_type = "clean" THEN m.node.clean_step
                ELSE m.node.deploy_step
        ind == Get(info, step_type \o "_step_index")
        next == IF skip_current_step THEN StepIndexes[ind] + 1
                ELSE StepIndexes[ind]
    IN  IF step_type \notin {"clean", "deploy"} THEN Raise(m, "Invalid")
        ELSE IF step \in {None, "{}"}
        THEN Return(m, IF Len(StepLists[info[step_type \o "_steps"]]) = 0
                       THEN None ELSE ToString(0))
        ELSE IF ind = None THEN Return(m, None)
        ELSE IF next >= Len(StepLists[info[step_type \o "_steps"]])
        THEN Return(m, None)
        ELSE Return(m, ToString(next))

\* _get_node_next_steps(task, step_type, skip_current_step=True): the index
\* is returned as the text that stands for it.
_get_node_next_steps(m, step_type, skip_current_step) ==
    LET info == m.node.driver_internal_info
        step == IF step_type = "clean" THEN m.node.clean_step
                ELSE m.node.deploy_step
        ind == Get(info, step_type \o "_step_index")
        next == IF skip_current_step THEN StepIndexes[ind] + 1
                ELSE StepIndexes[ind]
    IN  IF step_type \notin {"clean", "deploy"} THEN Raise(m, "Invalid")
        ELSE IF step \in {None, "{}"} THEN Return(m, ToString(0))
        ELSE IF ind = None THEN Return(m, None)
        ELSE IF next >= Len(StepLists[info[step_type \o "_steps"]])
        THEN Return(m, None)
        ELSE Return(m, ToString(next))

\* add_secret_token(node, pregenerated=False); token is what
\* secrets.token_urlsafe() returns.
add_secret_token(n, token, pregenerated) ==
    [n EXCEPT !.driver_internal_info =
        [@ EXCEPT !["agent_secret_token"] = token,
                  !["agent_secret_token_pregenerated"] =
                      IF pregenerated THEN "True" ELSE @]]

\* Mutant: a node without a token accepts no token as its token.
is_agent_token_valid_of_get(n, token) ==
    Get(n.driver_internal_info, "agent_secret_token") = token

\* is_agent_token_valid(node, token)
is_agent_token_valid(n, token) ==
    IF token = None THEN FALSE
    ELSE Get(n.driver_internal_info, "agent_secret_token") = token

(***************************************************************************)
(* The lifecycle error handlers                                            *)
(***************************************************************************)
\* Mutant: the handler catches the fail event's InvalidState.
deploying_error_handler_swallows(m, logmsg, errmsg0, clean_up, o) ==
    LET s1 == save([m EXCEPT !.node.last_error =
                       IF Truthy(errmsg0) THEN errmsg0 ELSE logmsg])
        e == process_event_fail(s1, None)
    IN  IF e.exc = "InvalidState" THEN Raise(e, NoExc) ELSE e

\* Mutant: the exception of deploy.clean_up leaves the handler.
deploying_error_handler_propagates(m, logmsg, errmsg0, clean_up, o) ==
    LET s1 == save([m EXCEPT !.node.last_error =
                       IF Truthy(errmsg0) THEN errmsg0 ELSE logmsg])
        c == IF clean_up
             THEN DriverCall(s1, "deploy", "clean_up", o.deploy_clean_up)
             ELSE s1
        r == refresh(c)
        w == IF r.node.provision_state \in
                    {states.DEPLOYING, states.DEPLOYWAIT, states.DEPLOYFAIL}
             THEN wipe_deploy_internal_info(
                      [r EXCEPT !.node.deploy_step = "{}"], o)
             ELSE r
    IN  IF c.exc # NoExc THEN c ELSE process_event_fail(save(w), None)

\* Mutant: the error is stored once the keys of the deployment are wiped.
deploying_error_handler_stores_late(m, logmsg, errmsg0, clean_up, o) ==
    LET errmsg == IF Truthy(errmsg0) THEN errmsg0 ELSE logmsg
        c == IF clean_up
             THEN DriverCall(m, "deploy", "clean_up", o.deploy_clean_up)
             ELSE m
        cleanup_err ==
            IF c.exc = NoExc THEN errmsg
            ELSE errmsg \o <<".">> \o
                 (IF c.exc \in IronicExceptions
                  THEN <<"Also failed to clean up due to:">> \o Str(c.exc)
                  ELSE <<"An unhandled exception was encountered while aborting. More information may be found in the log file.">>)
        r == refresh(Raise(c, NoExc))
        w == IF r.node.provision_state \in
                    {states.DEPLOYING, states.DEPLOYWAIT, states.DEPLOYFAIL}
             THEN wipe_deploy_internal_info(
                      [r EXCEPT !.node.deploy_step = "{}"], o)
             ELSE r
    IN  process_event_fail(save([w EXCEPT !.node.last_error = cleanup_err]),
                           None)

\* deploying_error_handler(task, logmsg, errmsg=None, traceback=False,
\*                         clean_up=True)
deploying_error_handler(m, logmsg, errmsg0, clean_up, o) ==
    LET errmsg == IF Truthy(errmsg0) THEN errmsg0 ELSE logmsg
        s1 == save([m EXCEPT !.node.last_error = errmsg])
        c == IF clean_up
             THEN DriverCall(s1, "deploy", "clean_up", o.deploy_clean_up)
             ELSE s1
        cleanup_err ==
            IF c.exc = NoExc THEN NoText
            ELSE errmsg \o <<".">> \o
                 (IF c.exc \in IronicExceptions
                  THEN <<"Also failed to clean up due to:">> \o Str(c.exc)
                  ELSE <<"An unhandled exception was encountered while aborting. More information may be found in the log file.">>)
        r == refresh(Raise(c, NoExc))
        w == IF r.node.provision_state \in
                    {states.DEPLOYING, states.DEPLOYWAIT, states.DEPLOYFAIL}
             THEN wipe_deploy_internal_info(
                      [r EXCEPT !.node.deploy_step = "{}"], o)
             ELSE r
        e == IF Truthy(cleanup_err)
             THEN [w EXCEPT !.node.last_error = cleanup_err]
             ELSE w
    IN  process_event_fail(save(e), None)

\* The rest of a mutant of cleaning_error_handler: n is the node that it
\* saves.
cleaning_error_handler_mutant(u, n, set_fail_state) ==
    IF set_fail_state /\ n.provision_state # states.CLEANFAIL
    THEN process_event_fail(
             save([u EXCEPT !.node = n]),
             IF n.target_provision_state = states.MANAGEABLE
             THEN states.MANAGEABLE ELSE None)
    ELSE save([u EXCEPT !.node = n])

\* Mutant: maintenance_reason is overwritten.
cleaning_error_handler_overwrites_reason(m, msg0, tear_down_cleaning, set_fail_state, o) ==
    LET t == IF tear_down_cleaning
             THEN DriverCall(m, "deploy", "tear_down_cleaning",
                             o.tear_down_cleaning)
             ELSE m
        msg == IF t.exc = NoExc THEN msg0
               ELSE msg0 \o <<". Also failed to tear down cleaning.">>
    IN  cleaning_error_handler_mutant(
            Raise(t, NoExc),
            [t.node EXCEPT !.fault = "clean failure", !.maintenance = TRUE,
                           !.last_error = msg, !.maintenance_reason = msg],
            set_fail_state)

\* Mutant: the clean step and the keys are cleared in every provision state.
cleaning_error_handler_clears_in_any_state(m, msg0, tear_down_cleaning, set_fail_state, o) ==
    LET t == IF tear_down_cleaning
             THEN DriverCall(m, "deploy", "tear_down_cleaning",
                             o.tear_down_cleaning)
             ELSE m
        msg == IF t.exc = NoExc THEN msg0
               ELSE msg0 \o <<". Also failed to tear down cleaning.">>
    IN  cleaning_error_handler_mutant(
            Raise(t, NoExc),
            [t.node EXCEPT
                !.fault = "clean failure", !.maintenance = TRUE,
                !.last_error = msg,
                !.maintenance_reason = IF ~Truthy(@) THEN msg ELSE @,
                !.clean_step = "{}",
                !.driver_internal_info =
                    [k \in DiiKeys |->
                        IF k \in {"clean_step_index", "cleaning_reboot",
                                  "cleaning_polling",
                                  "skip_current_clean_step", "agent_url"}
                        THEN Absent ELSE @[k]]],
            set_fail_state)

\* Mutant: the fail event is fired on a node in CLEANFAIL as well.
cleaning_error_handler_fails_again(m, msg0, tear_down_cleaning, set_fail_state, o) ==
    LET t == IF tear_down_cleaning
             THEN DriverCall(m, "deploy", "tear_down_cleaning",
                             o.tear_down_cleaning)
             ELSE m
        msg == IF t.exc = NoExc THEN msg0
               ELSE msg0 \o <<". Also failed to tear down cleaning.">>
        s1 == save([Raise(t, NoExc) EXCEPT
                      !.node.fault = "clean failure",
                      !.node.maintenance = TRUE,
                      !.node.last_error = msg,
                      !.node.maintenance_reason =
                          IF ~Truthy(@) THEN msg ELSE @])
    IN  IF set_fail_state
        THEN process_event_fail(
                 s1, IF s1.node.target_provision_state = states.MANAGEABLE
                     THEN states.MANAGEABLE ELSE None)
        ELSE s1

\* cleaning_error_handler(task, msg, tear_down_cleaning=True,
\*                        set_fail_state=True)
cleaning_error_handler(m, msg0, tear_down_cleaning, set_fail_state, o) ==
    LET f == [m EXCEPT !.node.fault = "clean failure",
                       !.node.maintenance = TRUE]
        t == IF tear_down_cleaning
             THEN DriverCall(f, "deploy", "tear_down_cleaning",
                             o.tear_down_cleaning)
             ELSE f
        msg == IF t.exc = NoExc THEN msg0
               ELSE msg0 \o <<". Also failed to tear down cleaning.">>
        u == Raise(t, NoExc)
        n1 == IF u.node.provision_state \in
                    {states.CLEANING, states.CLEANWAIT, states.CLEANFAIL}
              THEN [u.node EXCEPT
                      !.clean_step = "{}",
                      !.driver_internal_info =
                          [k \in DiiKeys |->
                              IF k \in {"clean_step_index",
                                        "cleaning_reboot",
                                        "cleaning_polling",
                                        "skip_current_clean_step",
                                        "agent_url"} THEN Absent
                              ELSE @[k]]]
              ELSE u.node
        manual_clean == n1.target_provision_state = states.MANAGEABLE
        n2 == [n1 EXCEPT
                 !.last_error = msg,
                 !.maintenance_reason = IF ~Truthy(@) THEN msg ELSE @]
        s1 == save([u EXCEPT !.node = n2])
    IN  IF set_fail_state /\ s1.node.provision_state # states.CLEANFAIL
        THEN process_event_fail(s1, IF manual_clean THEN states.MANAGEABLE
                                    ELSE None)
        ELSE s1

\* Mutant: a failure leaves last_error as the power action set it.
rescuing_clean_up_keeps_error(p, msg, o) ==
    LET c == IF p.exc # NoExc THEN p
             ELSE DriverCall(p, "rescue", "clean_up", o.rescue_clean_up)
    IN  IF c.exc = NoExc
        THEN [c EXCEPT !.node = [remove_agent_url(c.node) EXCEPT
                                    !.last_error = msg]]
        ELSE IF Truthy(c.node.last_error) THEN c
        ELSE [c EXCEPT !.node.last_error = msg]

\* rescuing_error_handler: the rest of the try block once the power action
\* is over (p), then the except clauses.
rescuing_clean_up(p, msg, o) ==
    LET c == IF p.exc # NoExc THEN p
             ELSE DriverCall(p, "rescue", "clean_up", o.rescue_clean_up)
    IN  IF c.exc = NoExc
        THEN [c EXCEPT !.node = [remove_agent_url(c.node) EXCEPT
                                    !.last_error = msg]]
        ELSE IF c.exc \in IronicExceptions
        THEN [c EXCEPT !.node.last_error =
                 <<"Rescue operation was unsuccessful, clean up failed for node:">>
                 \o Str(c.exc)]
        ELSE [c EXCEPT !.node.last_error =
                 <<"Rescue failed, but an unhandled exception was encountered while aborting:">>
                 \o Str(c.exc)]

\* Mutant: the fail event's InvalidState is not caught.
rescuing_finally_raises(t, set_fail_state) ==
    LET f == save([t EXCEPT !.node = remove_agent_url(t.node),
                            !.exc = NoExc])
    IN  IF set_fail_state THEN process_event_fail(f, None) ELSE f

\* rescuing_error_handler: the finally clause and what follows it; t is the
\* task after the try block and its except clauses.
rescuing_finally(t, set_fail_state) ==
    LET f == save([t EXCEPT !.node = remove_agent_url(t.node),
                            !.exc = NoExc])
        \* except exception.InvalidState: logged
        e == process_event_fail(f, None)
    IN  IF ~set_fail_state THEN f
        ELSE IF e.exc = "InvalidState" THEN Raise(e, NoExc) ELSE e

\* rescuing_error_handler(task, msg, set_fail_state=True)
rescuing_error_handler(m, msg, set_fail_state, o) ==
    rescuing_finally(
        rescuing_clean_up(node_power_action(m, states.POWER_OFF, o), msg, o),
        set_fail_state)

\* Mutant: cleanup_cleanwait_timeout refuses to run under a shared lock.
cleanup_cleanwait_timeout_decorated(m, o) ==
    LET l == require_exclusive_lock(m)
    IN  IF l.exc # NoExc THEN l
        ELSE cleaning_error_handler(
                 l, <<"Timeout reached while cleaning the node.">>,
                 TRUE, FALSE, o)

\* cleanup_cleanwait_timeout(task)
cleanup_cleanwait_timeout(m, o) ==
    cleaning_error_handler(
        m,
        <<"Timeout reached while cleaning the node. Please check if the ramdisk responsible for the cleaning is running on the node. Failed on step",
          m.node.clean_step>>,
        TRUE, FALSE, o)

\* cleanup_after_timeout(task)
cleanup_after_timeout(m, o) ==
    LET l == require_exclusive_lock(m)
        msg == <<"Timeout reached while waiting for callback for node">>
    IN  IF l.exc # NoExc THEN l
        ELSE deploying_error_handler(l, msg, msg, TRUE, o)

\* Mutant: the rescue timeout handler lets its error handler fire fail.
cleanup_rescuewait_timeout_fails(m, o) ==
    LET l == require_exclusive_lock(m)
    IN  IF l.exc # NoExc THEN l
        ELSE rescuing_error_handler(l, <<"Timeout reached">>, TRUE, o)

\* cleanup_rescuewait_timeout(task)
cleanup_rescuewait_timeout(m, o) ==
    LET l == require_exclusive_lock(m)
        msg == <<"Timeout reached while waiting for rescue ramdisk callback for node">>
    IN  IF l.exc # NoExc THEN l
        ELSE rescuing_error_handler(l, msg, FALSE, o)

\* abort_on_conductor_take_over as it would be without its decorator.
abort_on_conductor_take_over_undecorated(m, o) ==
    LET msg == <<"Operation was aborted due to conductor take over">>
    IN  IF m.node.provision_state = states.CLEANFAIL
        THEN cleaning_error_handler(m, msg, TRUE, FALSE, o)
        ELSE save([m EXCEPT !.node.last_error = msg])

\* Mutant: the cleaning handler is left to fire the fail event.
abort_on_conductor_take_over_fails(m, o) ==
    LET l == require_exclusive_lock(m)
        msg == <<"Operation was aborted due to conductor take over">>
    IN  IF l.exc # NoExc THEN l
        ELSE IF l.node.provision_state \in
                    {states.CLEANFAIL, states.CLEANING, states.CLEANWAIT}
        THEN cleaning_error_handler(l, msg, TRUE, TRUE, o)
        ELSE save([l EXCEPT !.node.last_error = msg])

\* abort_on_conductor_take_over(task)
abort_on_conductor_take_over(m, o) ==
    LET l == require_exclusive_lock(m)
        msg == <<"Operation was aborted due to conductor take over">>
    IN  IF l.exc # NoExc THEN l
        ELSE IF l.node.provision_state = states.CLEANFAIL
        THEN cleaning_error_handler(l, msg, TRUE, FALSE, o)
        ELSE save([l EXCEPT !.node.last_error = msg])

(***************************************************************************)
(* The vendor of a node                                                    *)
(***************************************************************************)
\* The values of properties.get('vendor') that are false.
NoVendor == {Absent, None, ""}

\* task.upgrade_lock(purpose): a shared lock becomes exclusive, or the call
\* raises because another task holds the exclusive lock and the task keeps
\* its shared lock; a task that holds the exclusive lock keeps it.
upgrade_lock(m, outcome) ==
    LET l == Emit(m, <<"task", "upgrade_lock">>)
    IN  IF ~l.shared THEN l
        ELSE IF outcome = "ok" THEN [l EXCEPT !.shared = FALSE]
        ELSE Raise(l, outcome)

\* task.driver.management.detect_vendor(task): the vendor, or raises.
detect_vendor(m, outcome) ==
    LET l == Emit(m, <<"management", "detect_vendor">>)
    IN  IF outcome \in {"UnsupportedDriverExtension", "DriverOperationError",
                        "RuntimeError"}
        THEN Raise(l, outcome)
        ELSE Return(l, outcome)

\* Mutant: the vendor is stored whether or not the lock was upgraded.
node_cache_vendor_without_lock(m, o) ==
    IF m.node.properties.vendor \notin NoVendor THEN m
    ELSE
      LET d == detect_vendor(m, o.detect_vendor)
      IN  IF d.exc # NoExc THEN Raise(d, NoExc)
          ELSE IF d.ret \in NoVendor THEN Return(d, None)
          ELSE save([Return(Raise(upgrade_lock(d, o.upgrade_lock), NoExc),
                            None)
                       EXCEPT !.node.properties.vendor = d.ret])

\* node_cache_vendor(task)
node_cache_vendor(m, o) ==
    IF m.node.properties.vendor \notin NoVendor THEN m
    ELSE
      LET d == detect_vendor(m, o.detect_vendor)
          vendor == d.ret
          u == IF d.exc # NoExc \/ vendor \in NoVendor THEN d
               ELSE upgrade_lock(d, o.upgrade_lock)
      IN  \* except exception.UnsupportedDriverExtension: return
          \* except Exception: LOG.warning, return
          IF u.exc # NoExc THEN Return(Raise(u, NoExc), None)
          ELSE IF vendor \in NoVendor THEN Return(u, None)
          ELSE save([Return(u, None) EXCEPT
                       !.node.properties.vendor = vendor])

(***************************************************************************)
(* The spawn-failure handlers                                              *)
(***************************************************************************)
NoFreeWorkers == <<"No free conductor workers available">>

\* remove_node_rescue_password(node, save=True)
remove_node_rescue_password(m, save_it) ==
    LET r == [m EXCEPT !.node.instance_info =
                 [k \in DOMAIN @ |->
                     IF k \in {"rescue_password", "hashed_rescue_password"}
                     THEN Absent ELSE @[k]]]
    IN  IF save_it THEN save(r) ELSE r

\* _spawn_error_handler(e, node, operation)
_spawn_error_handler(m, e) ==
    IF e = "NoFreeConductorWorker"
    THEN save([m EXCEPT !.node.last_error = NoFreeWorkers])
    ELSE m

\* spawn_cleaning_error_handler(e, node)
spawn_cleaning_error_handler(m, e) == _spawn_error_handler(m, e)

\* spawn_deploying_error_handler(e, node)
spawn_deploying_error_handler(m, e) == _spawn_error_handler(m, e)

\* spawn_rescue_error_handler(e, node)
spawn_rescue_error_handler(m, e) ==
    _spawn_error_handler(
        IF e = "NoFreeConductorWorker"
        THEN remove_node_rescue_password(m, FALSE) ELSE m,
        e)

\* power_state_error_handler(e, node, power_state)
power_state_error_handler(m, e, power_state) ==
    IF e = "NoFreeConductorWorker"
    THEN save([m EXCEPT !.node.power_state = power_state,
                        !.node.target_power_state = states.NOSTATE,
                        !.node.last_error = NoFreeWorkers])
    ELSE m

\* Mutant: the target is not put back.
provisioning_error_handler_keeps_target(m, e, provision_state, target_provision_state) ==
    IF e = "NoFreeConductorWorker"
    THEN save([m EXCEPT !.node.provision_state = provision_state,
                        !.node.last_error = NoFreeWorkers])
    ELSE m

\* provisioning_error_handler(e, node, provision_state,
\*                            target_provision_state)
provisioning_error_handler(m, e, provision_state, target_provision_state) ==
    IF e = "NoFreeConductorWorker"
    THEN save([m EXCEPT !.node.provision_state = provision_state,
                        !.node.target_provision_state =
                            target_provision_state,
                        !.node.last_error = NoFreeWorkers])
    ELSE m

(***************************************************************************)
(* Physical networks of port groups                                        *)
(***************************************************************************)
\* The physical networks of the ports of a port group, but for one port.
PhysnetsOf(portgroup_id, exclude_port) ==
    {ports[p].physical_network :
        p \in {q \in DOMAIN ports \ {exclude_port} :
                 ports[q].portgroup_id = portgroup_id}}

\* network.get_physnets_by_portgroup_id(task, portgroup_id, exclude_port):
\* the set above; it raises PortgroupPhysnetInconsistent when the ports are
\* not all in the same physical network.
get_physnets_by_portgroup_id(m, portgroup_id, exclude_port) ==
    LET l == Emit(m, <<"network", "get_physnets_by_portgroup_id">>)
        physnets == PhysnetsOf(portgroup_id, exclude_port)
    IN  IF Cardinality(physnets) > 1
        THEN Raise(l, "PortgroupPhysnetInconsistent")
        ELSE Return(l, physnets)

\* Mutant: a port joins a port group whatever its physical network.
validate_port_physnet_never_conflicts(m, port_obj) ==
    LET l == require_exclusive_lock(m)
    IN  IF l.exc # NoExc THEN l
        ELSE IF port_obj.portgroup_id \in {Absent, None} THEN l
        ELSE get_physnets_by_portgroup_id(l, port_obj.portgroup_id,
                                          port_obj.uuid)

\* Mutant: a physical network that is not set differs from every value,
\* null included.
validate_port_physnet_unset_differs(m, port_obj) ==
    LET l == require_exclusive_lock(m)
        g == get_physnets_by_portgroup_id(l, port_obj.portgroup_id,
                                          port_obj.uuid)
    IN  IF l.exc # NoExc THEN l
        ELSE IF port_obj.portgroup_id \in {Absent, None} THEN l
        ELSE IF port_obj.changed
                  \cap {"portgroup_id", "physical_network"} = {} THEN l
        ELSE IF g.exc # NoExc \/ g.ret = {} THEN g
        ELSE IF port_obj.physical_network \notin g.ret
        THEN Raise(Emit(g, <<"network", "get_portgroup_by_id">>), "Conflict")
        ELSE g

\* Mutant: the port group is examined whether the port changes or not.
validate_port_physnet_always_checks(m, port_obj) ==
    LET l == require_exclusive_lock(m)
        g == get_physnets_by_portgroup_id(l, port_obj.portgroup_id,
                                          port_obj.uuid)
    IN  IF l.exc # NoExc THEN l
        ELSE IF port_obj.portgroup_id \in {Absent, None} THEN l
        ELSE g

\* validate_port_physnet(task, port_obj); port_obj is
\* [uuid, portgroup_id, physical_network, changed], a field that is not set
\* being Absent.
validate_port_physnet(m, port_obj) ==
    LET l == require_exclusive_lock(m)
    IN  IF l.exc # NoExc THEN l
        ELSE IF port_obj.portgroup_id \in {Absent, None} THEN l
        ELSE IF port_obj.changed
                  \cap {"portgroup_id", "physical_network"} = {} THEN l
        ELSE
          LET g == get_physnets_by_portgroup_id(l, port_obj.portgroup_id,
                                                port_obj.uuid)
          IN  IF g.exc # NoExc THEN g
              ELSE IF g.ret = {} THEN g
              ELSE
                LET pg_physnet == CHOOSE x \in g.ret : TRUE
                    port_physnet ==
                        IF port_obj.physical_network # Absent
                        THEN port_obj.physical_network ELSE None
                IN  IF port_physnet # pg_physnet
                    THEN Raise(Emit(g, <<"network", "get_portgroup_by_id">>),
                               "Conflict")
                    ELSE g

(***************************************************************************)
(* Calls                                                                   *)
(***************************************************************************)
\* What a call on a collaborator may do: return, or raise one of these.
PowerDriverOutcomes == {"ok", "DriverOperationError"}

AttachOutcomes == {"ok", "StorageError"}

DetachOutcomes == {"ok", "StorageError", "RuntimeError"}

AllOk ==
    [get_power_state |-> "ok", attach_volumes |-> "ok",
     set_power_state |-> "ok", detach_volumes |-> "ok"]

\* The outcomes of the calls a power action makes.  The action makes no
\* further call on a driver once one has raised (except the detach after a
\* success, which is the last), so one failure per call is every case.
PowerOutcomes ==
    {AllOk}
    \cup {[AllOk EXCEPT !.get_power_state = e] :
             e \in PowerDriverOutcomes \ {"ok"}}
    \cup {[AllOk EXCEPT !.attach_volumes = e] :
             e \in AttachOutcomes \ {"ok"}}
    \cup {[AllOk EXCEPT !.set_power_state = e] :
             e \in PowerDriverOutcomes \ {"ok"}}
    \cup {[AllOk EXCEPT !.detach_volumes = e] :
             e \in DetachOutcomes \ {"ok"}}

\* new_state is "any power state from ironic.common.states".
PowerStates ==
    {states.POWER_ON, states.POWER_OFF, states.REBOOT, states.SOFT_REBOOT,
     states.SOFT_POWER_OFF, states.ERROR}

\* What the hardware can report.
HardwareStates == {states.POWER_ON, states.POWER_OFF, states.ERROR}

\* A task is acquired: its node object is loaded from the database.
Begin(shared) ==
    [node |-> db, db |-> db, hw |-> hw, shared |-> shared, log |-> <<>>,
     exc |-> NoExc, ret |-> None]

\* The call is over: the task is released.  call.again tells that the call
\* before it was the same call and returned normally.
Answered(op, arg, m, ret) ==
    /\ node' = m.node
    /\ db' = m.db
    /\ hw' = m.hw
    /\ call' = [op |-> op, arg |-> arg, shared |-> m.shared, exc |-> m.exc,
                log |-> m.log,
                again |-> /\ call.op = op
                          /\ call.arg = arg
                          /\ call.shared = m.shared
                          /\ call.exc = NoExc,
                ret |-> ret]
    /\ UNCHANGED <<now, conf, tasks>>

Released(op, arg, m) == Answered(op, arg, m, None)

Finish(op, arg, m) == Released(op, arg, m) /\ UNCHANGED ports

CallPowerAction ==
    \E new_state \in PowerStates, shared \in BOOLEAN :
      \E o \in IF shared THEN {AllOk} ELSE PowerOutcomes :
        Finish("node_power_action", <<new_state>>,
               node_power_action(Begin(shared), new_state, o))

BootModes == {"uefi", "bios"}

BootDevices == {"pxe", "disk"}

BootOutcomes ==
    [validate : {"ok", "InvalidParameterValue"},
     set_boot_device : {"ok", "DriverOperationError"},
     get_supported_boot_modes : {"ok", "UnsupportedDriverExtension"},
     boot_modes : {{}, {"uefi"}, {"uefi", "bios"}},
     set_boot_mode : {"ok", "DriverOperationError"}]

CallSetBootDevice ==
    \E device \in BootDevices, persistent \in {"True", "False"},
       shared \in BOOLEAN, o \in BootOutcomes :
        Finish("node_set_boot_device", <<device, persistent>>,
               node_set_boot_device(Begin(shared), device, persistent, o))

CallSetBootMode ==
    \E mode \in BootModes, shared \in BOOLEAN, o \in BootOutcomes :
        Finish("node_set_boot_mode", <<mode>>,
               node_set_boot_mode(Begin(shared), mode, o))

\* The outcomes of the calls the timeout and take-over handlers make, on top
\* of those of a power action.
HandlersOk ==
    [get_power_state |-> "ok", attach_volumes |-> "ok",
     set_power_state |-> "ok", detach_volumes |-> "ok",
     deploy_clean_up |-> "ok", tear_down_cleaning |-> "ok",
     rescue_clean_up |-> "ok", should_write_image |-> TRUE]

CleanUpOutcomes == {"ok", "DriverOperationError", "RuntimeError"}

WithPower(o, p) ==
    [o EXCEPT !.get_power_state = p.get_power_state,
              !.attach_volumes = p.attach_volumes,
              !.set_power_state = p.set_power_state,
              !.detach_volumes = p.detach_volumes]

DeployTimeoutOutcomes ==
    {[HandlersOk EXCEPT !.deploy_clean_up = e, !.should_write_image = w] :
        e \in CleanUpOutcomes, w \in BOOLEAN}

RescueTimeoutOutcomes ==
    {WithPower(HandlersOk, [AllOk EXCEPT !.set_power_state = e]) :
        e \in PowerDriverOutcomes}
    \cup {[HandlersOk EXCEPT !.rescue_clean_up = e] : e \in CleanUpOutcomes}

TakeOverOutcomes ==
    {[HandlersOk EXCEPT !.tear_down_cleaning = e] : e \in CleanUpOutcomes}

CallCleanupAfterTimeout ==
    \E shared \in BOOLEAN :
      \E o \in IF shared THEN {HandlersOk} ELSE DeployTimeoutOutcomes :
        Finish("cleanup_after_timeout", <<>>,
               cleanup_after_timeout(Begin(shared), o))

CallCleanupRescuewaitTimeout ==
    \E shared \in BOOLEAN :
      \E o \in IF shared THEN {HandlersOk} ELSE RescueTimeoutOutcomes :
        Finish("cleanup_rescuewait_timeout", <<>>,
               cleanup_rescuewait_timeout(Begin(shared), o))

CallAbortOnConductorTakeOver ==
    \E shared \in BOOLEAN :
      \E o \in IF shared THEN {HandlersOk} ELSE TakeOverOutcomes :
        Finish("abort_on_conductor_take_over", <<>>,
               abort_on_conductor_take_over(Begin(shared), o))

\* The fields of a port object that obj_what_changed() may report.
ChangedFields ==
    [none |-> {}, physical_network |-> {"physical_network"},
     portgroup_id |-> {"portgroup_id"},
     both |-> {"portgroup_id", "physical_network"}]

\* The port objects given to validate_port_physnet: a new port, of which
\* every field that is set appears changed, in a port group or in none; and
\* port1 of the database, being updated in its port group.
PortObjects ==
    [uuid : {"port3"},
     portgroup_id : {Absent, None, "portgroup1", "portgroup2"},
     physical_network : {Absent, "physnetA", "physnetB"},
     changed : {"both"}]
    \cup [uuid : {"port1"},
          portgroup_id : {"portgroup1"},
          physical_network : {"physnetA", "physnetB"},
          changed : {"none", "physical_network"}]

CallValidatePortPhysnet ==
    \E shared \in BOOLEAN, p \in PortObjects :
        Finish("validate_port_physnet",
               <<p.uuid, p.portgroup_id, p.physical_network, p.changed>>,
               validate_port_physnet(
                   Begin(shared),
                   [p EXCEPT !.changed = ChangedFields[p.changed]]))

\* The port object of a creation or of an update that assigns the fields
\* named by changed: a port that exists keeps its other fields, a new port
\* has no other field.
PortObject(uuid, changed, portgroup_id, physical_network) ==
    [uuid |-> uuid,
     portgroup_id |->
         IF "portgroup_id" \in ChangedFields[changed] THEN portgroup_id
         ELSE IF uuid \in DOMAIN ports THEN ports[uuid].portgroup_id
         ELSE Absent,
     physical_network |->
         IF "physical_network" \in ChangedFields[changed]
         THEN physical_network
         ELSE IF uuid \in DOMAIN ports THEN ports[uuid].physical_network
         ELSE Absent,
     changed |-> changed]

\* The port is written to the database; a field that is not set is null.
WithPort(p) ==
    [q \in DOMAIN ports \cup {p.uuid} |->
        IF q = p.uuid
        THEN [portgroup_id |-> IF p.portgroup_id = Absent THEN None
                               ELSE p.portgroup_id,
              physical_network |-> IF p.physical_network = Absent THEN None
                                   ELSE p.physical_network]
        ELSE ports[q]]

\* A port is created or updated: it is validated, and written when the
\* validation returns.
ValidatedAndSaved(shared, p) ==
    LET m == validate_port_physnet(
                 Begin(shared), [p EXCEPT !.changed = ChangedFields[@]])
    IN  /\ Released("validate_port_physnet",
                    <<p.uuid, p.portgroup_id, p.physical_network, p.changed>>,
                    m)
        /\ ports' = IF m.exc = NoExc THEN WithPort(p) ELSE ports

PortgroupIds == {None, "portgroup1"}

PhysicalNetworks == {None, "physnetA", "physnetB"}

CallCreateOrUpdatePort ==
    \E shared \in BOOLEAN, uuid \in {"port1", "port3"},
       changed \in DOMAIN ChangedFields,
       portgroup_id \in PortgroupIds, physical_network \in PhysicalNetworks :
        /\ "portgroup_id" \notin ChangedFields[changed]
              => portgroup_id = None
        /\ "physical_network" \notin ChangedFields[changed]
              => physical_network = None
        /\ ValidatedAndSaved(shared, PortObject(uuid, changed, portgroup_id,
                                                physical_network))

\* A power action of the lifecycle handlers' model: one request of each kind.
CallPowerActionOps ==
    \E new_state \in {states.POWER_OFF, states.REBOOT},
       shared \in BOOLEAN, e \in PowerDriverOutcomes :
        Finish("node_power_action", <<new_state>>,
               node_power_action(Begin(shared), new_state,
                                 [AllOk EXCEPT !.set_power_state = e]))

\* The boot device and boot mode helpers with a driver that does not fail.
BootOk ==
    [validate |-> "ok", set_boot_device |-> "ok",
     get_supported_boot_modes |-> "ok", boot_modes |-> {"uefi", "bios"},
     set_boot_mode |-> "ok"]

CallSetBootOps ==
    \E shared \in BOOLEAN :
        \/ Finish("node_set_boot_device", <<"pxe", "False">>,
                  node_set_boot_device(Begin(shared), "pxe", "False", BootOk))
        \/ Finish("node_set_boot_mode", <<"uefi">>,
                  node_set_boot_mode(Begin(shared), "uefi", BootOk))

\* The calls of the error handlers record, after the arguments, what the
\* driver calls they make did.
\* The messages given to the error handlers; "None" stands for no message.
Message(name) == IF name = "None" THEN NoText ELSE <<name>>

Bool(name) == name = "True"

Shown(b) == IF b THEN "True" ELSE "False"

CallDeployingErrorHandler ==
    \E shared \in BOOLEAN, errmsg \in {"None", "boom"},
       clean_up \in {"True", "False"}, o \in DeployTimeoutOutcomes :
        Finish("deploying_error_handler",
               <<"log", errmsg, clean_up, o.deploy_clean_up,
                 Shown(o.should_write_image)>>,
               deploying_error_handler(Begin(shared), Message("log"),
                                       Message(errmsg), Bool(clean_up), o))

CallCleaningErrorHandler ==
    \E shared \in BOOLEAN, tear_down_cleaning \in {"True", "False"},
       set_fail_state \in {"True", "False"}, o \in TakeOverOutcomes :
        Finish("cleaning_error_handler",
               <<"boom", tear_down_cleaning, set_fail_state,
                 o.tear_down_cleaning>>,
               cleaning_error_handler(Begin(shared), Message("boom"),
                                      Bool(tear_down_cleaning),
                                      Bool(set_fail_state), o))

\* What the calls of rescuing_error_handler did: as after a timeout, or the
\* power driver raised an exception that is not of the domain.
RescueOutcomes ==
    RescueTimeoutOutcomes
    \cup {WithPower(HandlersOk, [AllOk EXCEPT !.set_power_state = e]) :
             e \in {"RuntimeError"}}

CallRescuingErrorHandler ==
    \E shared \in BOOLEAN, set_fail_state \in {"True", "False"},
       o \in RescueOutcomes :
        Finish("rescuing_error_handler",
               <<"boom", set_fail_state, o.set_power_state,
                 o.rescue_clean_up>>,
               rescuing_error_handler(Begin(shared), Message("boom"),
                                      Bool(set_fail_state), o))

CallCleanupCleanwaitTimeout ==
    \E shared \in BOOLEAN, o \in TakeOverOutcomes :
        Finish("cleanup_cleanwait_timeout", <<>>,
               cleanup_cleanwait_timeout(Begin(shared), o))

\* The operations that the conductor hands to a worker, each with the error
\* handler it registers for the spawn and with the provision states before
\* and after the event that starts it.
Attempts ==
    {[handler |-> "provisioning_error_handler",
      from |-> <<states.AVAILABLE, None>>,
      to |-> <<states.DEPLOYING, states.ACTIVE>>],
     [handler |-> "spawn_deploying_error_handler",
      from |-> <<states.DEPLOYWAIT, states.ACTIVE>>,
      to |-> <<states.DEPLOYING, states.ACTIVE>>],
     [handler |-> "spawn_cleaning_error_handler",
      from |-> <<states.CLEANWAIT, states.AVAILABLE>>,
      to |-> <<states.CLEANING, states.AVAILABLE>>],
     [handler |-> "spawn_rescue_error_handler",
      from |-> <<states.ACTIVE, None>>,
      to |-> <<states.RESCUING, states.RESCUE>>]}

\* The conductor is about to spawn a worker: the node is in the state of the
\* operation, saved.  call.arg keeps the handler registered and the
\* provision_state, target_provision_state and power_state from before.
Attempted(handler, n) ==
    /\ call.op # "attempt"
    /\ node' = n
    /\ db' = n
    /\ call' = [op |-> "attempt",
                arg |-> <<handler, db.provision_state,
                          db.target_provision_state, db.power_state>>,
                shared |-> FALSE, exc |-> NoExc, log |-> <<>>,
                again |-> FALSE, ret |-> None]
    /\ UNCHANGED <<hw, now, conf, ports, tasks>>

AttemptProvisioning ==
    \E a \in Attempts :
        /\ db.provision_state = a.from[1]
        /\ db.target_provision_state = a.from[2]
        /\ Attempted(a.handler,
                     [db EXCEPT
                        !.provision_state = a.to[1],
                        !.target_provision_state = a.to[2],
                        !.last_error = NoText,
                        !.instance_info =
                            IF a.handler = "spawn_rescue_error_handler"
                            THEN InstanceInfo("set", "set") ELSE @])

AttemptPowerChange ==
    \E new_state \in {states.POWER_ON, states.POWER_OFF} :
        /\ db.target_power_state = states.NOSTATE
        /\ Attempted("power_state_error_handler",
                     [db EXCEPT !.target_power_state = new_state,
                                !.last_error = NoText])

\* What the worker pool may answer to a spawn.
SpawnErrors == {"NoFreeConductorWorker", "RuntimeError"}

\* The spawn has failed with e and the handler registered runs.
SpawnFailed(handler, e, m) ==
    /\ call.op = "attempt"
    /\ call.arg[1] = handler
    /\ Finish(handler, <<e, call.arg[2], call.arg[3], call.arg[4]>>, m)

CallSpawnCleaningErrorHandler ==
    \E e \in SpawnErrors :
        SpawnFailed("spawn_cleaning_error_handler", e,
                    spawn_cleaning_error_handler(Begin(FALSE), e))

CallSpawnDeployingErrorHandler ==
    \E e \in SpawnErrors :
        SpawnFailed("spawn_deploying_error_handler", e,
                    spawn_deploying_error_handler(Begin(FALSE), e))

CallSpawnRescueErrorHandler ==
    \E e \in SpawnErrors :
        SpawnFailed("spawn_rescue_error_handler", e,
                    spawn_rescue_error_handler(Begin(FALSE), e))

CallPowerStateErrorHandler ==
    \E e \in SpawnErrors :
        SpawnFailed("power_state_error_handler", e,
                    power_state_error_handler(Begin(FALSE), e, call.arg[4]))

CallProvisioningErrorHandler ==
    \E e \in SpawnErrors :
        SpawnFailed("provisioning_error_handler", e,
                    provisioning_error_handler(Begin(FALSE), e, call.arg[2],
                                               call.arg[3]))

\* A function is called on the node object at hand, under an exclusive lock
\* where it takes a task.
Holding == [Begin(FALSE) EXCEPT !.node = node]

\* What a function returned, as a text: True, False, the text itself, or
\* None when it raised.
Returned(op, arg, m, ret) == Answered(op, arg, m, ret) /\ UNCHANGED ports

\* What detect_vendor returns or raises, and what upgrade_lock does.
VendorOutcomes ==
    [detect_vendor : {"Dell", "", None, "UnsupportedDriverExtension",
                      "DriverOperationError", "RuntimeError"},
     upgrade_lock : {"ok", "LockAcquisitionFailed"}]

CallNodeCacheVendor ==
    \E shared \in BOOLEAN, o \in VendorOutcomes :
        Finish("node_cache_vendor",
               <<Shown(shared), o.detect_vendor, o.upgrade_lock>>,
               node_cache_vendor(Begin(shared), o))

\* The two wipes of the keys of an operation, on the node that the task
\* holds.
CallWipeDeployInternalInfo ==
    \E swi \in BOOLEAN :
        Finish("wipe_deploy_internal_info", <<Shown(swi)>>,
               wipe_deploy_internal_info(Holding,
                                         [should_write_image |-> swi]))

CallWipeCleaningInternalInfo ==
    \E swi \in BOOLEAN :
        Finish("wipe_cleaning_internal_info", <<Shown(swi)>>,
               wipe_cleaning_internal_info(Holding,
                                           [should_write_image |-> swi]))

CallFastTrackAble ==
    \E swi \in BOOLEAN :
        Returned("fast_track_able", <<Shown(swi)>>, Holding,
                 Shown(fast_track_able(Holding,
                                       [should_write_image |-> swi])))

CallIsFastTrack ==
    \E swi \in BOOLEAN, e \in PowerDriverOutcomes :
        LET m == is_fast_track(Holding, [should_write_image |-> swi,
                                         get_power_state |-> e])
        IN  Returned("is_fast_track", <<Shown(swi), e>>, m,
                     IF m.exc # NoExc THEN None ELSE Shown(m.ret))

\* The timeouts that [deploy]fast_track_timeout allows (min=0, max=300), by
\* their ends and two values between.
Timeouts == {0, 1, 299, 300}

CallValueWithinTimeout ==
    \E value \in {None, ""} \cup {isoformat(t) : t \in Instants},
       timeout \in Timeouts :
        Returned("value_within_timeout", <<value, ToString(timeout)>>,
                 Holding, Shown(value_within_timeout(value, timeout)))

CallGetNodeNextSteps ==
    \E step_type \in {"clean", "deploy"}, skip_current_step \in BOOLEAN :
        LET m == _get_node_next_steps(Holding, step_type, skip_current_step)
        IN  Returned("_get_node_next_steps",
                     <<step_type, Shown(skip_current_step)>>, m, m.ret)

\* The tokens that secrets.token_urlsafe() may return.
Tokens == {"tokenA", "tokenB"}

CallAddSecretToken ==
    \E token \in Tokens, pregenerated \in BOOLEAN :
        Returned("add_secret_token", <<token, Shown(pregenerated)>>,
                 [Holding EXCEPT !.node =
                     add_secret_token(node, token, pregenerated)],
                 None)

CallIsAgentTokenValid ==
    \E token \in Tokens \cup {None, ""} :
        Returned("is_agent_token_valid", <<token>>, Holding,
                 Shown(is_agent_token_valid(node, token)))

\* What the calls of a network configuration under
\* power_state_for_network_configuration may do: the power actions may fail
\* at the driver, the body and the wait for the agent may raise.
NetworkOutcomes ==
    [need_power_on : BOOLEAN,
     get_power_state : PowerDriverOutcomes,
     boot : {BootOk, [BootOk EXCEPT !.set_boot_device =
                                        "DriverOperationError"]},
     power_on : {[AllOk EXCEPT !.set_power_state = e] :
                    e \in PowerDriverOutcomes},
     smartnic_port : BOOLEAN,
     wait_for_host_agent : {"ok", "NetworkError"},
     body : {"ok", "NetworkError"},
     restore : {[AllOk EXCEPT !.set_power_state = e] :
                   e \in PowerDriverOutcomes}]

\* The calls record need_power_on, then what the power state query, the
\* entry and the body did.
CallPowerStateForNetworkConfiguration ==
    \E shared \in BOOLEAN, o \in NetworkOutcomes :
        /\ ~o.smartnic_port => o.wait_for_host_agent = "ok"
        /\ Finish("power_state_for_network_configuration",
                  <<Shown(o.need_power_on), o.get_power_state, o.body>>,
                  power_state_for_network_configuration(Begin(shared), o))

CallNotifyConductorResume ==
    \E shared \in BOOLEAN,
       o \in [get_topic_for : {"ok", "TemporaryFailure"},
              continue_node : {"ok", "MessagingTimeout"}] :
        \/ Finish("notify_conductor_resume_clean", <<o.get_topic_for>>,
                  notify_conductor_resume_clean(Begin(shared), o))
        \/ Finish("notify_conductor_resume_deploy", <<o.get_topic_for>>,
                  notify_conductor_resume_deploy(Begin(shared), o))

\* The workers of the conductor that may hold a task on the node.
Workers == {"worker1", "worker2"}

\* A node object that is not loaded.
NoNode ==
    [power_state |-> None, target_power_state |-> None,
     last_error |-> NoText, provision_state |-> None,
     target_provision_state |-> None, instance_uuid |-> None,
     instance_info |-> NoInstanceInfo, maintenance |-> FALSE,
     maintenance_reason |-> NoText, fault |-> None, clean_step |-> "{}",
     deploy_step |-> "{}", properties |-> [vendor |-> Absent],
     driver_internal_info |->
         [k \in DiiKeys |-> Absent]]

\* A worker that holds no task.
IdleTask ==
    [pc |-> "idle", shared |-> FALSE, node |-> NoNode, new_state |-> None]

NoTasks == [w \in Workers |-> IdleTask]

\* The worker holds the node's exclusive lock.
HoldsExclusive(w) == tasks[w].pc # "idle" /\ ~tasks[w].shared

\* task_manager.acquire(context, node_id, shared): the exclusive lock is
\* given when no other worker holds it; a shared lock takes no reservation.
\* The node object is loaded from the database.
Acquire(w) ==
    \E shared \in BOOLEAN :
        /\ tasks[w].pc = "idle"
        /\ ~shared => \A v \in Workers : ~HoldsExclusive(v)
        /\ tasks' = [tasks EXCEPT ![w] = [pc |-> "acquired",
                                          shared |-> shared,
                                          node |-> db,
                                          new_state |-> None]]
        /\ UNCHANGED <<node, db, hw, call, now, conf, ports>>

\* The worker's task as a machine, on the database and the hardware as
\* they are now.
TaskOf(w) ==
    [node |-> tasks[w].node, db |-> db, hw |-> hw,
     shared |-> tasks[w].shared, log |-> <<>>, exc |-> NoExc, ret |-> None]

\* The worker runs a step of an operation: m is the task after it and pc
\* where the worker then is.
Stepped(w, m, pc, new_state) ==
    /\ tasks' = [tasks EXCEPT ![w].pc = pc,
                              ![w].node = m.node,
                              ![w].new_state = new_state]
    /\ db' = m.db
    /\ hw' = m.hw
    /\ UNCHANGED <<node, call, now, conf, ports>>

\* The worker calls node_power_action, which runs until it returns, raises
\* or is about to call the power driver.
BeginPowerAction(w) ==
    \E new_state \in {states.POWER_ON, states.POWER_OFF, states.REBOOT},
       e \in PowerDriverOutcomes :
        LET m == power_action_begin(TaskOf(w), new_state,
                                    [AllOk EXCEPT !.get_power_state = e])
        IN  /\ tasks[w].pc = "acquired"
            /\ Stepped(w, m,
                       IF m.exc = NoExc /\ ~m.ret THEN "prepared"
                       ELSE "done",
                       new_state)

\* The driver call of the worker's power action returns or raises, and
\* node_power_action runs to its end.
EndPowerAction(w) ==
    \E o \in PowerOutcomes :
        /\ tasks[w].pc = "prepared"
        /\ Stepped(w, power_action_end(TaskOf(w), tasks[w].new_state, o),
                   "done", tasks[w].new_state)

\* The task is released, and its lock with it.
Release(w) ==
    /\ tasks[w].pc \in {"acquired", "done"}
    /\ tasks' = [tasks EXCEPT ![w] = IdleTask]
    /\ UNCHANGED <<node, db, hw, call, now, conf, ports>>

\* The hardware changes its power state by itself (a power cut, the button).
HardwareChanges ==
    /\ \E s \in HardwareStates \ {hw} : hw' = s
    /\ call' = [op |-> "hardware", arg |-> <<>>, shared |-> FALSE,
                exc |-> NoExc, log |-> <<>>, again |-> FALSE,
                ret |-> None]
    /\ UNCHANGED <<node, db, now, conf, ports, tasks>>

(***************************************************************************)
(* Initial states                                                          *)
(***************************************************************************)
\* driver_internal_info with the agent's keys as given; when working is
\* TRUE the keys of a deployment and of a cleaning in progress are there too.
InternalInfo(url, token, flag, cached, working) ==
    [k \in DiiKeys |->
        IF k = "agent_url" THEN url
        ELSE IF k = "agent_secret_token" THEN token
        ELSE IF k = "agent_secret_token_pregenerated" THEN flag
        ELSE IF k \in {"agent_cached_deploy_steps",
                       "agent_cached_clean_steps"} THEN cached
        ELSE IF k \in {"last_power_state_change", "agent_last_heartbeat"}
        THEN Absent
        ELSE IF working THEN "set" ELSE Absent]

InitInternalInfo ==
    {InternalInfo(url, token, flag, cached, FALSE) :
        url \in {Absent, "set"}, token \in {Absent, "set"},
        flag \in {Absent, "True", "False"}, cached \in {Absent, "set"}}

\* The provision states of a node that has an instance.
InstanceStates ==
    {states.ACTIVE, states.DEPLOYING, states.DEPLOYWAIT, states.DEPLOYFAIL,
     states.RESCUING, states.RESCUEWAIT, states.RESCUE, states.RESCUEFAIL}

\* A node as the database holds it between two operations.  An instance is
\* associated with the nodes in InstanceStates.
NodeRecords(provision_states) ==
    {n \in [power_state : {states.POWER_ON, states.POWER_OFF, None},
            target_power_state : {states.NOSTATE},
            last_error : {NoText},
            provision_state : provision_states,
            target_provision_state : {None},
            instance_uuid : {None, "instance"},
            instance_info : {NoInstanceInfo},
            maintenance : {FALSE},
            maintenance_reason : {NoText},
            fault : {None},
            clean_step : {"{}"},
            deploy_step : {"{}"},
            properties : {[vendor |-> Absent]},
            driver_internal_info : InitInternalInfo] :
        (n.provision_state \in InstanceStates) = (n.instance_uuid # None)}

InitNodes == NodeRecords({states.ACTIVE, states.AVAILABLE})

\* No port is in the database.
NoPorts == [p \in {} |-> None]

NoCall ==
    [op |-> "none", arg |-> <<>>, shared |-> FALSE, exc |-> NoExc,
     log |-> <<>>, again |-> FALSE, ret |-> None]

Init ==
    /\ db \in InitNodes
    /\ node = db
    /\ hw \in HardwareStates
    /\ call = NoCall
    /\ now = 0
    /\ conf = [fast_track |-> FALSE, fast_track_timeout |-> 300]
    /\ ports = NoPorts
    /\ tasks = NoTasks

Next ==
    \/ CallPowerAction
    \/ HardwareChanges

Spec == Init /\ [][Next]_vars

\* The boot device and boot mode helpers, on nodes being adopted and on others.
InitBoot ==
    /\ db \in NodeRecords({states.ADOPTING, states.MANAGEABLE})
    /\ db.power_state # None
    /\ db.driver_internal_info["agent_secret_token_pregenerated"] = Absent
    /\ node = db
    /\ hw = db.power_state
    /\ call = NoCall
    /\ now = 0
    /\ conf = [fast_track |-> FALSE, fast_track_timeout |-> 300]
    /\ ports = NoPorts
    /\ tasks = NoTasks

NextBoot ==
    \/ CallSetBootDevice
    \/ CallSetBootMode

SpecBoot == InitBoot /\ [][NextBoot]_vars

\* Two ports are in the database, both in port group portgroup1, in the same
\* physical network or not.
InitPorts ==
    {[p \in {"port1", "port2"} |->
         [portgroup_id |-> "portgroup1",
          physical_network |-> IF p = "port1" THEN "physnetA" ELSE n]] :
        n \in {None, "physnetA"}}

\* The operations that require an exclusive lock, on a node that waits for a
\* deployment or a rescue to call back, or whose cleaning has failed.
InitOps ==
    /\ db \in {[n EXCEPT !.driver_internal_info =
                             InternalInfo("set", "set", Absent, "set", TRUE)] :
                  n \in NodeRecords({states.DEPLOYWAIT, states.RESCUEWAIT,
                                     states.CLEANFAIL})}
    /\ db.power_state = states.POWER_ON
    /\ node = db
    /\ hw = states.POWER_ON
    /\ call = NoCall
    /\ now = 0
    /\ conf \in [fast_track : BOOLEAN]
    /\ ports \in InitPorts
    /\ tasks = NoTasks

NextOps ==
    \/ CallPowerActionOps
    \/ CallSetBootOps
    \/ CallValidatePortPhysnet
    \/ CallCleanupAfterTimeout
    \/ CallCleanupRescuewaitTimeout
    \/ CallAbortOnConductorTakeOver

SpecOps == InitOps /\ [][NextOps]_vars

\* The provision state and the target of a node that an operation works on,
\* or that an operation has just left.
WorkingStates ==
    {<<states.DEPLOYING, states.ACTIVE>>,
     <<states.DEPLOYWAIT, states.ACTIVE>>,
     <<states.CLEANWAIT, states.AVAILABLE>>,
     <<states.CLEANWAIT, states.MANAGEABLE>>,
     <<states.RESCUEWAIT, states.RESCUE>>,
     <<states.AVAILABLE, None>>}

\* The lifecycle error handlers and the timeout handlers, called by the
\* conductor on a node that is powered on and has the keys of the work in
\* progress in its driver_internal_info.
InitHandlers ==
    /\ db \in {[n EXCEPT !.driver_internal_info =
                             InternalInfo("set", "set", Absent, "set", TRUE),
                         !.target_provision_state = w[2],
                         !.deploy_step =
                             IF w[1] \in {states.DEPLOYING, states.DEPLOYWAIT}
                             THEN "{'step': 'deploy'}" ELSE "{}",
                         !.clean_step =
                             IF w[1] = states.CLEANWAIT
                             THEN "{'step': 'erase_devices'}" ELSE "{}"] :
                  <<n, w>> \in {x \in NodeRecords({y[1] : y \in WorkingStates})
                                      \X WorkingStates :
                                  /\ x[1].provision_state = x[2][1]
                                  /\ x[1].power_state = states.POWER_ON}}
    /\ node = db
    /\ hw = states.POWER_ON
    /\ call = NoCall
    /\ now = 0
    /\ conf = [fast_track |-> TRUE, fast_track_timeout |-> 300]
    /\ ports = NoPorts
    /\ tasks = NoTasks

NextHandlers ==
    \/ CallDeployingErrorHandler
    \/ CallCleaningErrorHandler
    \/ CallRescuingErrorHandler
    \/ CallCleanupAfterTimeout
    \/ CallCleanupCleanwaitTimeout
    \/ CallCleanupRescuewaitTimeout
    \/ CallAbortOnConductorTakeOver

SpecHandlers == InitHandlers /\ [][NextHandlers]_vars

\* The provision state and the target of a node that the conductor is asked
\* to work on.
RestingStates ==
    {<<states.AVAILABLE, None>>, <<states.ACTIVE, None>>,
     <<states.DEPLOYWAIT, states.ACTIVE>>,
     <<states.CLEANWAIT, states.AVAILABLE>>}

\* The conductor starts operations and the worker pool refuses them.
InitSpawn ==
    /\ db \in {[n EXCEPT !.target_provision_state = w[2]] :
                  <<n, w>> \in {x \in NodeRecords({y[1] : y \in RestingStates})
                                      \X RestingStates :
                                  /\ x[1].provision_state = x[2][1]
                                  /\ x[1].power_state # None
                                  /\ x[1].driver_internal_info =
                                        InternalInfo("set", "set", Absent,
                                                     "set", FALSE)}}
    /\ node = db
    /\ hw = db.power_state
    /\ call = NoCall
    /\ now = 0
    /\ conf = [fast_track |-> FALSE, fast_track_timeout |-> 300]
    /\ ports = NoPorts
    /\ tasks = NoTasks

NextSpawn ==
    \/ AttemptProvisioning
    \/ AttemptPowerChange
    \/ CallSpawnCleaningErrorHandler
    \/ CallSpawnDeployingErrorHandler
    \/ CallSpawnRescueErrorHandler
    \/ CallPowerStateErrorHandler
    \/ CallProvisioningErrorHandler

SpecSpawn == InitSpawn /\ [][NextSpawn]_vars

\* The ports of the database: port1 and port2 in port group portgroup1, in
\* the same physical network or not, and maybe port3 with them.
InitPortGroups ==
    {[p \in ps |->
         [portgroup_id |-> "portgroup1",
          physical_network |-> IF p = "port1" THEN n1
                               ELSE IF p = "port2" THEN n2 ELSE "physnetA"]] :
        ps \in {{"port1", "port2"}, {"port1", "port2", "port3"}},
        n1 \in PhysicalNetworks, n2 \in PhysicalNetworks}

\* Ports are created and updated on a node that is at rest.
InitPortsSpec ==
    /\ db \in {n \in NodeRecords({states.MANAGEABLE}) :
                  /\ n.power_state = states.POWER_OFF
                  /\ n.driver_internal_info =
                        InternalInfo(Absent, Absent, Absent, Absent, FALSE)}
    /\ node = db
    /\ hw = states.POWER_OFF
    /\ call = NoCall
    /\ now = 0
    /\ conf = [fast_track |-> FALSE, fast_track_timeout |-> 300]
    /\ ports \in InitPortGroups
    /\ tasks = NoTasks

NextPorts == CallCreateOrUpdatePort

SpecPorts == InitPortsSpec /\ [][NextPorts]_vars

\* The nodes on which the functions that only compute are called: a node
\* with or without a heartbeat and a last error, a node at some step of a
\* list of steps, a node that has not started its steps, under each
\* configuration of fast track.
Heartbeats ==
    {Absent, None, isoformat(MaxTime - 400), isoformat(MaxTime - 300),
     isoformat(MaxTime - 299), isoformat(MaxTime)}

HeartbeatNodes ==
    {[n EXCEPT !.last_error = e, !.power_state = p,
               !.driver_internal_info["agent_last_heartbeat"] = h,
               !.driver_internal_info["clean_steps"] = "[]",
               !.driver_internal_info["deploy_steps"] = "[]"] :
        n \in {n \in NodeRecords({states.AVAILABLE}) :
                 n.driver_internal_info =
                     InternalInfo("set", Absent, Absent, Absent, FALSE)},
        e \in {NoText, <<"boom">>}, p \in {states.POWER_ON, states.POWER_OFF},
        h \in Heartbeats}

StepNodes ==
    {[n EXCEPT !.clean_step = st[1], !.deploy_step = st[1],
               !.driver_internal_info["clean_step_index"] = st[2],
               !.driver_internal_info["deploy_step_index"] = st[2],
               !.driver_internal_info["clean_steps"] = st[3],
               !.driver_internal_info["deploy_steps"] = st[3]] :
        n \in {n \in NodeRecords({states.CLEANING}) :
                 /\ n.power_state = states.POWER_ON
                 /\ n.driver_internal_info =
                       InternalInfo("set", "set", Absent, Absent, FALSE)},
        st \in ({"{}", None} \X {Absent} \X {"[]", "[a]", "[a, b]"})
               \cup ({"a"} \X {Absent, None, "0"} \X {"[a]", "[a, b]"})
               \cup ({"b"} \X {"1"} \X {"[a, b]"})}

InitUtils ==
    /\ db \in HeartbeatNodes \cup StepNodes
    /\ node = db
    /\ hw \in {states.POWER_ON, states.POWER_OFF}
    /\ call = NoCall
    /\ now = MaxTime
    /\ conf \in [fast_track : BOOLEAN, fast_track_timeout : {0, 300}]
    /\ db \in StepNodes =>
          /\ hw = states.POWER_ON
          /\ conf = [fast_track |-> FALSE, fast_track_timeout |-> 300]
    /\ ports = NoPorts
    /\ tasks = NoTasks

NextUtils ==
    \/ CallFastTrackAble
    \/ CallIsFastTrack
    \/ CallValueWithinTimeout
    \/ CallGetNodeNextSteps

SpecUtils == InitUtils /\ [][NextUtils]_vars

\* A node with or without a token, to which tokens are given and on which
\* tokens are validated.
InitTokens ==
    /\ db \in {[n EXCEPT !.driver_internal_info["agent_secret_token"] = t] :
                  n \in {n \in NodeRecords({states.AVAILABLE}) :
                           /\ n.power_state = states.POWER_ON
                           /\ n.driver_internal_info =
                                 InternalInfo("set", Absent, Absent, Absent,
                                              FALSE)},
                  t \in {Absent, None, "tokenA"}}
    /\ node = db
    /\ hw = states.POWER_ON
    /\ call = NoCall
    /\ now = MaxTime
    /\ conf = [fast_track |-> FALSE, fast_track_timeout |-> 300]
    /\ ports = NoPorts
    /\ tasks = NoTasks

NextTokens ==
    \/ CallAddSecretToken
    \/ CallIsAgentTokenValid

SpecTokens == InitTokens /\ [][NextTokens]_vars

\* A node whose network is configured during a deployment or a cleaning,
\* and whose operation is then resumed.
InitNetwork ==
    /\ db \in {n \in NodeRecords({states.DEPLOYWAIT, states.CLEANWAIT}) :
                  /\ n.power_state # None
                  /\ n.driver_internal_info =
                        InternalInfo("set", "set", Absent, Absent, FALSE)}
    /\ node = db
    /\ hw \in {states.POWER_ON, states.POWER_OFF}
    /\ call = NoCall
    /\ now = 0
    /\ conf = [fast_track |-> FALSE, fast_track_timeout |-> 300]
    /\ ports = NoPorts
    /\ tasks = NoTasks

NextNetwork ==
    \/ CallPowerStateForNetworkConfiguration
    \/ CallNotifyConductorResume
    \/ HardwareChanges

SpecNetwork == InitNetwork /\ [][NextNetwork]_vars

\* The nodes on which a deployment or a cleaning fails: in the states of a
\* deployment or of a cleaning, or at rest, with the keys of the work in
\* progress, with or without a reason of maintenance given by an operator.
FailingStates ==
    {<<states.DEPLOYING, states.ACTIVE>>,
     <<states.DEPLOYWAIT, states.ACTIVE>>,
     <<states.DEPLOYFAIL, states.ACTIVE>>,
     <<states.CLEANING, states.AVAILABLE>>,
     <<states.CLEANWAIT, states.MANAGEABLE>>,
     <<states.CLEANFAIL, states.AVAILABLE>>,
     <<states.MANAGEABLE, None>>}

InitFailures ==
    /\ db \in {[n EXCEPT !.driver_internal_info =
                             InternalInfo("set", "set", Absent, "set", TRUE),
                         !.target_provision_state = w[2],
                         !.deploy_step =
                             IF w[2] = states.ACTIVE
                             THEN "{'step': 'deploy'}" ELSE "{}",
                         !.clean_step =
                             IF w[2] = states.ACTIVE
                             THEN "{}" ELSE "{'step': 'erase_devices'}",
                         !.maintenance = Truthy(r),
                         !.maintenance_reason = r] :
                  <<n, w>> \in {x \in NodeRecords({y[1] : y \in FailingStates})
                                      \X FailingStates :
                                  /\ x[1].provision_state = x[2][1]
                                  /\ x[1].power_state = states.POWER_ON},
                  r \in {NoText, <<"operator">>}}
    /\ node = db
    /\ hw = states.POWER_ON
    /\ call = NoCall
    /\ now = 0
    /\ conf = [fast_track |-> TRUE, fast_track_timeout |-> 300]
    /\ ports = NoPorts
    /\ tasks = NoTasks

NextFailures ==
    \/ CallDeployingErrorHandler
    \/ CallCleaningErrorHandler

SpecFailures == InitFailures /\ [][NextFailures]_vars

\* A node at the end of a deployment or of a cleaning, with the keys of the
\* operation, with or without the agent's keys and a last error, under each
\* configuration of fast track.
InitWipe ==
    /\ db \in {[n EXCEPT !.last_error = e,
                         !.driver_internal_info =
                             InternalInfo(k[1], k[2], k[3], "set", TRUE)] :
                  n \in {x \in NodeRecords({states.DEPLOYING,
                                            states.CLEANING}) :
                           x.power_state = states.POWER_ON},
                  e \in {NoText, <<"boom">>},
                  k \in {Absent, "set"} \X {Absent, "set"}
                        \X {Absent, "True"}}
    /\ node = db
    /\ hw = states.POWER_ON
    /\ call = NoCall
    /\ now = 0
    /\ conf \in [fast_track : BOOLEAN, fast_track_timeout : {300}]
    /\ ports = NoPorts
    /\ tasks = NoTasks

NextWipe ==
    \/ CallWipeDeployInternalInfo
    \/ CallWipeCleaningInternalInfo

SpecWipe == InitWipe /\ [][NextWipe]_vars

\* A node whose vendor is known or not.
InitVendor ==
    /\ db \in {[n EXCEPT !.properties.vendor = v] :
                  n \in NodeRecords({states.AVAILABLE, states.ACTIVE}),
                  v \in {Absent, "", "HPE"}}
    /\ node = db
    /\ hw = states.POWER_ON
    /\ call = NoCall
    /\ now = 0
    /\ conf = [fast_track |-> FALSE, fast_track_timeout |-> 300]
    /\ ports = NoPorts
    /\ tasks = NoTasks

NextVendor == CallNodeCacheVendor

SpecVendor == InitVendor /\ [][NextVendor]_vars

\* The workers of a conductor take tasks on one node, under a shared or an
\* exclusive lock, and run power actions on it, each at its own pace.
InitWorkers ==
    /\ db \in {n \in InitNodes :
                  /\ n.power_state # None
                  /\ n.driver_internal_info =
                        InternalInfo("set", "set", Absent, "set", FALSE)}
    /\ node = db
    /\ hw \in {states.POWER_ON, states.POWER_OFF}
    /\ call = NoCall
    /\ now = 0
    /\ conf = [fast_track |-> FALSE, fast_track_timeout |-> 300]
    /\ ports = NoPorts
    /\ tasks = NoTasks

NextWorkers ==
    \E w \in Workers :
        \/ Acquire(w)
        \/ BeginPowerAction(w)
        \/ EndPowerAction(w)
        \/ Release(w)

SpecWorkers == InitWorkers /\ [][NextWorkers]_vars

(***************************************************************************)
(* What the last call did                                                  *)
(***************************************************************************)
InLog(log, e) == \E i \in 1..Len(log) : log[i] = e

CountInLog(log, e) == Cardinality({i \in 1..Len(log) : log[i] = e})

\* The call made set_power_state or reboot on the power driver.
PowerDriverCalled(log) ==
    \E i \in 1..Len(log) :
        /\ log[i][1] = "power"
        /\ log[i][2] \in {"set_power_state", "reboot"}

\* The call made some call on the management interface.
ManagementCalled(log) == \E i \in 1..Len(log) : log[i][1] = "management"

\* The last call was power_action(new_state) under an exclusive lock.
PowerActionOf(c, new_states) ==
    /\ c.op = "node_power_action"
    /\ ~c.shared
    /\ c.arg[1] \in new_states

\* agent_url and the cached steps are gone, and so is a token that is not
\* pregenerated.
Wiped(n) ==
    /\ n.driver_internal_info["agent_url"] = Absent
    /\ n.driver_internal_info["agent_cached_deploy_steps"] = Absent
    /\ n.driver_internal_info["agent_cached_clean_steps"] = Absent
    /\ ~is_agent_token_pregenerated(n)
          => n.driver_internal_info["agent_secret_token"] = Absent

(***************************************************************************)
(* Power action: the claims                                                *)
(***************************************************************************)
\* C1: after a power_action that returns without raising, whatever the
\* requested new_state, target_power_state is NOSTATE and power_state is
\* POWER_ON or POWER_OFF, in the node object and in the database.
C1_SuccessLeavesStablePowerState ==
    (call.op = "node_power_action" /\ call.exc = NoExc) =>
        \A n \in {node, db} :
            /\ n.target_power_state = states.NOSTATE
            /\ n.power_state \in {states.POWER_ON, states.POWER_OFF}

\* A reboot, which the skip check never sees, has returned normally.
C1_Witness ==
    /\ PowerActionOf(call, {states.REBOOT, states.SOFT_REBOOT})
    /\ call.exc = NoExc
    /\ PowerDriverCalled(call.log)

\* C2 as claimed: after any power_action that raises, last_error is not
\* empty and target_power_state is NOSTATE.
C2_AnyFailureRecordsError ==
    (call.op = "node_power_action" /\ call.exc # NoExc) =>
        /\ db.last_error \notin {NoText, <<"">>}
        /\ db.target_power_state = states.NOSTATE

\* The call failed in the power-state query, in attach_volumes or in the
\* power driver: under an exclusive lock, and not after the power state was
\* set.
FailedChangingPower(c) ==
    /\ c.op = "node_power_action"
    /\ c.exc # NoExc
    /\ ~c.shared
    /\ ~InLog(c.log, <<"storage", "detach_volumes">>)

\* C2, amended: after a power_action that fails because the power-state
\* query, attach_volumes or the power driver raised, last_error is not empty
\* and target_power_state is NOSTATE, in the node object and in the database.
C2_PowerFailureRecordsError ==
    FailedChangingPower(call) =>
        \A n \in {node, db} :
            /\ n.last_error \notin {NoText, <<"">>}
            /\ n.target_power_state = states.NOSTATE

\* The power driver was called and raised.
C2_Witness ==
    /\ FailedChangingPower(call)
    /\ PowerDriverCalled(call.log)

\* C3 as claimed: when power_action(REBOOT or SOFT_REBOOT) gets to the driver
\* call, the wipe has been saved: no agent_url, no cached steps, and no token
\* unless it is pregenerated.
C3_RebootWipesInternalInfo ==
    (/\ PowerActionOf(call, {states.REBOOT, states.SOFT_REBOOT})
     /\ PowerDriverCalled(call.log))
        => Wiped(db)

\* C4 as claimed: after a power_action(POWER_OFF) that returns normally, on a
\* node whose token is not pregenerated, neither the token nor agent_url nor
\* the cached steps are left.
C4_PowerOffWipesToken ==
    (/\ PowerActionOf(call, {states.POWER_OFF})
     /\ call.exc = NoExc
     /\ ~is_agent_token_pregenerated(db))
        => /\ Wiped(db)
           /\ db.driver_internal_info["agent_secret_token"] = Absent

\* C5 as claimed: a power-off of a node whose token is pregenerated keeps the
\* token and the flag as they were and removes agent_url and the cached
\* steps.
C5_PowerOffKeepsPregeneratedToken ==
    [][(/\ PowerActionOf(call', {states.POWER_OFF, states.SOFT_POWER_OFF})
        /\ call'.exc = NoExc
        /\ db.driver_internal_info["agent_secret_token_pregenerated"]
              = "True")
          => /\ db'.driver_internal_info["agent_secret_token"]
                  = db.driver_internal_info["agent_secret_token"]
             /\ db'.driver_internal_info["agent_secret_token_pregenerated"]
                  = "True"
             /\ Wiped(db')]_vars

\* The requested state is the one the hardware is in.
AlreadyThere(new_state, curr_state) ==
    \/ new_state = states.POWER_ON /\ curr_state = states.POWER_ON
    \/ /\ new_state \in {states.POWER_OFF, states.SOFT_POWER_OFF}
       /\ curr_state = states.POWER_OFF

\* C6: when the driver reports the requested state, power_action calls
\* neither set_power_state nor reboot, clears last_error, writes the observed
\* state into power_state, sets target_power_state to NOSTATE, saves, and
\* emits one START and one END notification.
C6_SkipPath ==
    [][(/\ PowerActionOf(call', PowerStates)
        /\ call'.exc = NoExc
        /\ AlreadyThere(call'.arg[1], hw))
          => /\ ~PowerDriverCalled(call'.log)
             /\ node'.last_error = NoText
             /\ node'.power_state = hw
             /\ node'.target_power_state = states.NOSTATE
             /\ db' = node'
             /\ InLog(call'.log, <<"node", "save">>)
             /\ CountInLog(call'.log, <<"power_set", "INFO", "START",
                                        call'.arg[1]>>) = 1
             /\ CountInLog(call'.log, <<"power_set", "INFO", "END",
                                        call'.arg[1]>>) = 1
             /\ \A i \in 1..Len(call'.log) :
                    call'.log[i][1] = "power_set"
                        => call'.log[i][3] \in {"START", "END"}]_vars

\* The skip path was taken for a soft power off.
C6_Witness ==
    /\ PowerActionOf(call, {states.SOFT_POWER_OFF})
    /\ call.exc = NoExc
    /\ ~PowerDriverCalled(call.log)
    /\ InLog(call.log, <<"power", "get_power_state">>)

\* C7 as claimed: power_action(REBOOT) always calls the driver's reboot and
\* power_action(SOFT_REBOOT) its set_power_state.
C7_RebootAlwaysCallsDriver ==
    /\ PowerActionOf(call, {states.REBOOT})
          => InLog(call.log, <<"power", "reboot">>)
    /\ PowerActionOf(call, {states.SOFT_REBOOT})
          => InLog(call.log, <<"power", "set_power_state",
                               states.SOFT_REBOOT>>)

\* C7, amended: power_action(REBOOT or SOFT_REBOOT) never queries the power
\* state and never skips: it calls the driver's reboot (REBOOT) or
\* set_power_state (SOFT_REBOOT), unless attach_volumes raised before.
C7_RebootNeverSkipped ==
    PowerActionOf(call, {states.REBOOT, states.SOFT_REBOOT}) =>
        /\ ~InLog(call.log, <<"power", "get_power_state">>)
        /\ \/ /\ InLog(call.log, <<"storage", "attach_volumes">>)
              /\ call.exc # NoExc
              /\ ~PowerDriverCalled(call.log)
           \/ IF call.arg[1] = states.REBOOT
              THEN InLog(call.log, <<"power", "reboot">>)
              ELSE InLog(call.log, <<"power", "set_power_state",
                                     states.SOFT_REBOOT>>)

\* A reboot of a node that was on (the failed call left power_state and the
\* hardware as they were): the driver was called all the same.
C7_Witness ==
    /\ PowerActionOf(call, {states.REBOOT})
    /\ InLog(call.log, <<"power", "reboot">>)
    /\ call.exc # NoExc
    /\ db.power_state = states.POWER_ON
    /\ hw = states.POWER_ON

\* The fields of the persisted node that C8 compares.
Persisted(n) ==
    <<n.power_state, n.target_power_state, n.last_error,
      n.driver_internal_info["agent_url"],
      n.driver_internal_info["agent_secret_token"],
      n.driver_internal_info["agent_secret_token_pregenerated"],
      n.driver_internal_info["agent_cached_deploy_steps"],
      n.driver_internal_info["agent_cached_clean_steps"]>>

\* The second of two power_action(new_state) in a row, new_state POWER_ON or
\* POWER_OFF.
SecondInARow ==
    /\ PowerActionOf(call, {states.POWER_ON, states.POWER_OFF})
    /\ PowerActionOf(call', {call.arg[1]})

CallWhenAdopting(ops) ==
    /\ call'.op \in ops
    /\ ~call'.shared
    /\ db.provision_state = states.ADOPTING

\* The call changed neither the node object it was given, nor the database,
\* nor the hardware.
NothingChanged == node' = db /\ db' = db /\ hw' = hw /\ ports' = ports

\* C9 as claimed: on a node being adopted set_boot_device and set_boot_mode
\* return normally, make no call on the management interface and change
\* nothing.
C9_NoOpsWhenAdopting ==
    [][CallWhenAdopting({"node_set_boot_device", "node_set_boot_mode"})
          => /\ call'.exc = NoExc
             /\ ~ManagementCalled(call'.log)
             /\ NothingChanged]_vars

\* C9, amended: on a node being adopted set_boot_mode returns normally
\* without any call on the management interface; set_boot_device calls the
\* interface's validate, and nothing else on it, and returns normally unless
\* validate raised; neither changes anything.
C9_NothingSetWhenAdopting ==
    [][/\ CallWhenAdopting({"node_set_boot_mode"})
          => /\ call'.exc = NoExc
             /\ call'.log = <<>>
             /\ NothingChanged
       /\ CallWhenAdopting({"node_set_boot_device"})
          => /\ call'.exc \in {NoExc, "InvalidParameterValue"}
             /\ call'.log = << <<"management", "validate">> >>
             /\ NothingChanged]_vars

\* set_boot_mode has returned from a call on a node being adopted.
C9_Witness ==
    /\ call.op = "node_set_boot_mode"
    /\ ~call.shared
    /\ call.exc = NoExc
    /\ db.provision_state = states.ADOPTING

(***************************************************************************)
(* Exclusive lock: the claim                                               *)
(***************************************************************************)
LockedOperations ==
    {"node_power_action", "node_set_boot_device", "node_set_boot_mode",
     "validate_port_physnet", "cleanup_after_timeout",
     "cleanup_rescuewait_timeout", "abort_on_conductor_take_over"}

\* C10: each of power_action, set_boot_device, set_boot_mode,
\* validate_port_physnet, cleanup_after_timeout, cleanup_rescuewait_timeout
\* and abort_on_conductor_take_over, called on a task that holds a shared
\* lock, raises ExclusiveLockRequired, having made no call on a driver or on
\* any other collaborator (no notification, no save) and changed nothing.
C10_SharedLockRefused ==
    [][(call'.op \in LockedOperations /\ call'.shared)
          => /\ call'.exc = "ExclusiveLockRequired"
             /\ call'.log = <<>>
             /\ NothingChanged]_vars

\* abort_on_conductor_take_over was called under a shared lock on a node
\* whose cleaning has failed, and raised ExclusiveLockRequired.
C10_Witness ==
    /\ call.op = "abort_on_conductor_take_over"
    /\ call.shared
    /\ call.exc = "ExclusiveLockRequired"
    /\ db.provision_state = states.CLEANFAIL

(***************************************************************************)
(* The lifecycle error handlers: the claims                                *)
(***************************************************************************)
Saved(log) == InLog(log, <<"node", "save">>)

\* The call fired the fail event.
FiredFail(log) ==
    \E i \in 1..Len(log) : log[i][1] = "process_event" /\ log[i][2] = "fail"

\* The text holds this piece.
InText(t, piece) == \E i \in 1..Len(t) : t[i] = piece

\* The text holds these two pieces, one after the other.
InTextThen(t, piece, next) ==
    \E i \in 1..(Len(t) - 1) : t[i] = piece /\ t[i + 1] = next

\* The operations that carry the decorator, and the handlers that do not.
DecoratedHandlers ==
    {"cleanup_after_timeout", "cleanup_rescuewait_timeout",
     "abort_on_conductor_take_over"}

UndecoratedHandlers ==
    {"deploying_error_handler", "cleaning_error_handler",
     "rescuing_error_handler", "cleanup_cleanwait_timeout"}

\* C11 as claimed: every handler, the lifecycle error handlers and
\* cleanup_cleanwait_timeout included, called on a task that holds a shared
\* lock refuses to run: it raises ExclusiveLockRequired and neither modifies
\* nor saves the node.
C11_NoMutatorRunsUnderSharedLock ==
    [][(call'.shared
        /\ call'.op \in DecoratedHandlers \cup UndecoratedHandlers)
          => /\ call'.exc = "ExclusiveLockRequired"
             /\ ~Saved(call'.log)
             /\ NothingChanged]_vars

\* C11, amended: under a shared lock the decorated handlers neither modify
\* nor save the node, but deploying_error_handler, cleaning_error_handler,
\* rescuing_error_handler and cleanup_cleanwait_timeout, which carry no
\* decorator, do not refuse: they never raise ExclusiveLockRequired and
\* they save the node with its last_error set.
C11_OnlyDecoratedHandlersRefuse ==
    [][call'.shared
          => /\ call'.op \in DecoratedHandlers
                => ~Saved(call'.log) /\ NothingChanged
             /\ call'.op \in UndecoratedHandlers
                => /\ call'.exc # "ExclusiveLockRequired"
                   /\ Saved(call'.log)
                   /\ Truthy(db'.last_error)]_vars

\* deploying_error_handler, called with a shared lock, has saved the node
\* with a last_error.
C11_Witness ==
    /\ call.op = "deploying_error_handler"
    /\ call.shared
    /\ Saved(call.log)
    /\ Truthy(db.last_error)

\* The message E that deploying_error_handler was called with.
ErrmsgOf(c) == IF c.arg[2] = "None" THEN c.arg[1] ELSE c.arg[2]

\* deploying_error_handler was called with clean_up and the driver's
\* deploy.clean_up raised a domain exception.
DeployCleanUpFailed(c) ==
    /\ c.op = "deploying_error_handler"
    /\ c.arg[3] = "True"
    /\ c.arg[4] \in IronicExceptions

DeployInternalKeys ==
    {"deploy_step_index", "deployment_reboot", "deployment_polling",
     "skip_current_deploy_step", "steps_validated",
     "agent_cached_deploy_steps"}

\* C13: deploying_error_handler called with message E on a node in
\* DEPLOYING or DEPLOYWAIT, when deploy.clean_up raises a domain exception
\* X: the persisted last_error holds E and "Also failed to clean up due to:"
\* X, provision_state is DEPLOYFAIL, deploy_step is empty and the
\* deploy-internal keys are absent.
C13_DeployFailureFoldsCleanUpError ==
    [][(/\ DeployCleanUpFailed(call')
        /\ db.provision_state \in {states.DEPLOYING, states.DEPLOYWAIT})
          => /\ InText(db'.last_error, ErrmsgOf(call'))
             /\ InTextThen(db'.last_error,
                           "Also failed to clean up due to:", call'.arg[4])
             /\ db'.provision_state = states.DEPLOYFAIL
             /\ db'.deploy_step = "{}"
             /\ \A k \in DeployInternalKeys :
                    db'.driver_internal_info[k] = Absent]_vars

\* The handler has run on a node that was deploying, its clean_up raised a
\* domain exception, and the node is in DEPLOYFAIL.
C13_Witness ==
    /\ DeployCleanUpFailed(call)
    /\ db.provision_state = states.DEPLOYFAIL
    /\ InText(db.last_error, "boom")

\* The node is saved before the fail event is fired.
SavedBeforeFail(log) ==
    \E i \in 1..Len(log) :
        /\ log[i] = <<"node", "save">>
        /\ \A j \in 1..Len(log) : log[j][1] = "process_event" => i < j

\* C14: rescuing_error_handler returns without raising whatever the power
\* off, rescue.clean_up and the fail event did (the state machine rejecting
\* the event included); agent_url is removed and the node is saved with a
\* last_error that is not empty before the fail event.
C14_RescuingHandlerIsTotal ==
    [][call'.op = "rescuing_error_handler"
          => /\ call'.exc = NoExc
             /\ db'.driver_internal_info["agent_url"] = Absent
             /\ node'.driver_internal_info["agent_url"] = Absent
             /\ Truthy(db'.last_error)
             /\ SavedBeforeFail(call'.log)]_vars

\* rescuing_error_handler has fired a fail event that the state machine
\* rejected (the node is AVAILABLE), and returned.
C14_Witness ==
    /\ call.op = "rescuing_error_handler"
    /\ call.arg[2] = "True"
    /\ FiredFail(call.log)
    /\ db.provision_state = states.AVAILABLE
    /\ call.exc = NoExc

\* The step is a call of deploying_error_handler or cleaning_error_handler
\* that fires the fail event on a node whose state does not accept it.
FailRejected ==
    /\ call'.op \in {"deploying_error_handler", "cleaning_error_handler"}
    /\ FiredFail(call'.log)
    /\ db.provision_state \notin DOMAIN FailTransitions

\* C15 as claimed: deploying_error_handler and cleaning_error_handler return
\* without raising when the state machine rejects their fail event.
C15_HandlersSwallowInvalidState ==
    [][FailRejected => call'.exc = NoExc]_vars

\* C15, amended: when the state machine rejects the fail event that
\* deploying_error_handler or cleaning_error_handler fires, InvalidState
\* leaves the handler; by then the node is saved with its last_error set,
\* and its provision_state is as it was.
C15_InvalidStateLeavesHandler ==
    [][FailRejected
          => /\ call'.exc = "InvalidState"
             /\ Truthy(db'.last_error)
             /\ db'.provision_state = db.provision_state]_vars

\* deploying_error_handler has raised InvalidState on an AVAILABLE node.
C15_Witness ==
    /\ call.op = "deploying_error_handler"
    /\ call.exc = "InvalidState"
    /\ db.provision_state = states.AVAILABLE

\* C16 as claimed: none of cleanup_after_timeout, cleanup_cleanwait_timeout
\* and cleanup_rescuewait_timeout fires a fail event.
C16_TimeoutHandlersFireNoFail ==
    [][call'.op \in {"cleanup_after_timeout", "cleanup_cleanwait_timeout",
                     "cleanup_rescuewait_timeout"}
          => ~FiredFail(call'.log)]_vars

\* C16, amended: cleanup_cleanwait_timeout and cleanup_rescuewait_timeout
\* fire no fail event; cleanup_after_timeout, whose error handler has no
\* set_fail_state, fires it once whenever it runs.
C16_OnlyDeployTimeoutFiresFail ==
    [][/\ call'.op \in {"cleanup_cleanwait_timeout",
                        "cleanup_rescuewait_timeout"}
          => ~FiredFail(call'.log)
       /\ (call'.op = "cleanup_after_timeout" /\ ~call'.shared)
          => CountInLog(call'.log, <<"process_event", "fail", None>>) = 1
      ]_vars

\* cleanup_cleanwait_timeout has run on a node that the state machine had
\* moved to CLEANFAIL.
C16_Witness ==
    /\ call.op = "cleanup_cleanwait_timeout"
    /\ db.provision_state = states.CLEANFAIL
    /\ Saved(call.log)

(***************************************************************************)
(* The spawn-failure handlers: the claim                                   *)
(***************************************************************************)
\* The step is a call of one of these handlers with NoFreeConductorWorker.
NoFreeWorker(handlers) ==
    /\ call'.op \in handlers
    /\ call'.arg[1] = "NoFreeConductorWorker"

SpawnHandlers ==
    {"spawn_cleaning_error_handler", "spawn_deploying_error_handler",
     "spawn_rescue_error_handler", "power_state_error_handler",
     "provisioning_error_handler"}

\* last_error is the message and is persisted; nothing but the save is
\* done: no fail event, no notification.
NoFreeWorkerRecorded ==
    /\ call'.exc = NoExc
    /\ db'.last_error = NoFreeWorkers
    /\ node' = db'
    /\ call'.log = << <<"node", "save">> >>

PowerRestored ==
    /\ db'.power_state = call'.arg[4]
    /\ db'.target_power_state = states.NOSTATE

RescuePasswordRemoved ==
    /\ db'.instance_info["rescue_password"] = Absent
    /\ db'.instance_info["hashed_rescue_password"] = Absent

\* provision_state and target_provision_state are what they were before the
\* operation was attempted.
ProvisionRestored ==
    /\ db'.provision_state = call'.arg[2]
    /\ db'.target_provision_state = call'.arg[3]

\* C17 as claimed: each spawn-failure handler called with
\* NoFreeConductorWorker records and persists the message, fires no event
\* and emits no notification, and restores the fields from before the
\* attempt: provision_state and target_provision_state for the cleaning,
\* deploying and provisioning handlers, the power states for the power
\* handler, and for the rescue handler the rescue passwords are removed.
C17_SpawnFailureRestoresState ==
    [][/\ NoFreeWorker(SpawnHandlers) => NoFreeWorkerRecorded
       /\ NoFreeWorker({"spawn_cleaning_error_handler",
                        "spawn_deploying_error_handler",
                        "provisioning_error_handler"}) => ProvisionRestored
       /\ NoFreeWorker({"power_state_error_handler"}) => PowerRestored
       /\ NoFreeWorker({"spawn_rescue_error_handler"})
          => RescuePasswordRemoved]_vars

\* C17, amended: as claimed for the message, the save, the power handler
\* and the rescue passwords; but of the provision fields, only
\* provisioning_error_handler puts back provision_state and
\* target_provision_state: the cleaning, deploying and rescue handlers leave
\* them as the attempt set them.
C17_OnlyProvisioningHandlerRestores ==
    [][/\ NoFreeWorker(SpawnHandlers) => NoFreeWorkerRecorded
       /\ NoFreeWorker({"provisioning_error_handler"}) => ProvisionRestored
       /\ NoFreeWorker({"spawn_cleaning_error_handler",
                        "spawn_deploying_error_handler",
                        "spawn_rescue_error_handler"})
          => /\ db'.provision_state = db.provision_state
             /\ db'.target_provision_state = db.target_provision_state
       /\ NoFreeWorker({"power_state_error_handler"}) => PowerRestored
       /\ NoFreeWorker({"spawn_rescue_error_handler"})
          => RescuePasswordRemoved]_vars

\* provisioning_error_handler has put a node whose deployment could not be
\* spawned back to AVAILABLE.
C17_Witness ==
    /\ call.op = "provisioning_error_handler"
    /\ call.arg[1] = "NoFreeConductorWorker"
    /\ db.provision_state = states.AVAILABLE
    /\ db.target_provision_state = None
    /\ db.last_error = NoFreeWorkers

(***************************************************************************)
(* Physical networks of port groups: the claims                            *)
(***************************************************************************)
\* The physical networks of the ports of each port group.
GroupPhysnets(pp, g) ==
    {pp[p].physical_network : p \in {q \in DOMAIN pp : pp[q].portgroup_id = g}}

\* Every port group's ports are in at most one physical network.
GroupsConsistent(pp) ==
    \A g \in {pp[p].portgroup_id : p \in DOMAIN pp} \ {None} :
        Cardinality(GroupPhysnets(pp, g)) <= 1

\* C18: when every port group's ports share one physical_network value, they
\* still do after a port creation or update that is applied only when
\* validate_port_physnet returns; so they do after any sequence of them.
C18_PortGroupsStayConsistent ==
    [][GroupsConsistent(ports) => GroupsConsistent(ports')]_vars

\* A port has joined a port group that has other ports.
C18_Witness ==
    /\ call.op = "validate_port_physnet"
    /\ call.exc = NoExc
    /\ call.arg[1] = "port3"
    /\ call.arg[4] = "both"
    /\ "port3" \in DOMAIN ports
    /\ ports["port3"].portgroup_id = "portgroup1"
    /\ GroupsConsistent(ports)

\* The step is a call of validate_port_physnet under an exclusive lock.
ValidatePort ==
    /\ call'.op = "validate_port_physnet"
    /\ ~call'.shared

\* What the port object of the call holds.
HasPortgroup == call'.arg[2] \notin {Absent, None}

MembershipChanged == ChangedFields[call'.arg[4]] # {}

PortPhysnet == IF call'.arg[3] = Absent THEN None ELSE call'.arg[3]

\* The physical networks of the other ports of the port's port group.
OtherPhysnets == PhysnetsOf(call'.arg[2], call'.arg[1])

GetPhysnets == <<"network", "get_physnets_by_portgroup_id">>

\* C19: validate_port_physnet raises Conflict exactly when the port has a
\* port group, its portgroup_id or physical_network is being changed, the
\* other ports of the group have one physical network and the port's
\* (null if unset) differs from it; with no port group or no such change it
\* returns without any query, and with no other port in the group it
\* returns after the one query of the group's physical networks.
C19_ConflictExactlyWhenPhysnetDiffers ==
    [][ValidatePort
          => /\ call'.exc = "Conflict"
                <=> /\ HasPortgroup
                    /\ MembershipChanged
                    /\ Cardinality(OtherPhysnets) = 1
                    /\ PortPhysnet \notin OtherPhysnets
             /\ (~HasPortgroup \/ ~MembershipChanged)
                => call'.exc = NoExc /\ call'.log = <<>>
             /\ (HasPortgroup /\ MembershipChanged /\ OtherPhysnets = {})
                => call'.exc = NoExc /\ call'.log = <<GetPhysnets>>]_vars

\* A port whose physical network is not that of its group's other ports was
\* refused with Conflict.
C19_Witness ==
    /\ call.op = "validate_port_physnet"
    /\ ~call.shared
    /\ call.exc = "Conflict"
    /\ call.arg[3] = "physnetB"
    /\ PhysnetsOf(call.arg[2], call.arg[1]) = {"physnetA"}

ExclusiveHolders == {w \in Workers : HoldsExclusive(w)}

\* The workers that are inside a power action on the node: node_power_action
\* has persisted the target and has not returned or raised yet.
InsidePowerAction == {w \in Workers : tasks[w].pc = "prepared"}

C21_TokenValidOnlyForGeneratedToken ==
    [][call'.op = "is_agent_token_valid" =>
          /\ call'.arg[1] = None => call'.ret = "False"
          /\ call.op = "add_secret_token" =>
                (call'.ret = "True") = (call'.arg[1] = call.arg[1])]_vars

\* A token was generated for the node, which the database does not hold
\* yet, and the token supplied was found valid.
C21_Witness ==
    /\ call.op = "is_agent_token_valid"
    /\ call.ret = "True"
    /\ node.driver_internal_info["agent_secret_token"] \in Tokens
    /\ node # db

(***************************************************************************)
(* Fast track and the next step: the claims (SpecUtils)                    *)
(***************************************************************************)
\* is_fast_track is called right after fast_track_able on the same task,
\* the storage interface answering the same.
AbleThenIsFastTrack ==
    /\ call.op = "fast_track_able"
    /\ call'.op = "is_fast_track"
    /\ call.arg[1] = call'.arg[1]

\* C22 as stated: fast_track_able(task) and is_fast_track(task) imply each
\* other.
C22_FastTrackAbleIffIsFastTrack ==
    [][AbleThenIsFastTrack =>
          (call.ret = "True") = (call'.ret = "True")]_vars

\* C22, amended: is_fast_track(task) implies fast_track_able(task); the
\* converse does not hold.
C22_IsFastTrackImpliesAble ==
    [][AbleThenIsFastTrack =>
          (call'.ret = "True" => call.ret = "True")]_vars

\* is_fast_track returned True.
IsFastTrack == call.op = "is_fast_track" /\ call.ret = "True"

C22_Witness == IsFastTrack /\ conf.fast_track /\ node.last_error = NoText

\* C23 as stated: whenever is_fast_track(task) is true, the node's recorded
\* power_state is POWER_ON.
C23_FastTrackMeansRecordedPowerOn ==
    IsFastTrack => node.power_state = states.POWER_ON

\* C23, amended: whenever is_fast_track(task) is true, the power state that
\* the driver reports is POWER_ON; the recorded power_state is not read.
C23_FastTrackMeansReportedPowerOn ==
    IsFastTrack => hw = states.POWER_ON

\* A fast track on a node whose recorded power state is POWER_OFF.
C23_Witness ==
    IsFastTrack /\ hw = states.POWER_ON /\ node.power_state = states.POWER_OFF

\* The heartbeat of the node, None when there is none.
Heartbeat == Get(node.driver_internal_info, "agent_last_heartbeat")

\* C24: with fast track enabled, should_write_image true, last_error None
\* and the driver reporting POWER_ON, is_fast_track is true when
\* agent_last_heartbeat is at most fast_track_timeout seconds old and false
\* when it is older or missing; value_within_timeout(None, t) is false for
\* every allowed t.
C24_FastTrackWithinTimeout ==
    /\ /\ call.op = "is_fast_track"
       /\ conf.fast_track
       /\ call.arg = <<"True", "ok">>
       /\ node.last_error = NoText
       /\ hw = states.POWER_ON
       => (call.ret = "True") =
              /\ Heartbeat # None
              /\ now - strptime(Heartbeat) <= conf.fast_track_timeout
    /\ call.op = "value_within_timeout" /\ call.arg[1] = None
       => call.ret = "False"

\* A heartbeat that is exactly fast_track_timeout seconds old allows the
\* fast track.
C24_Witness ==
    /\ IsFastTrack
    /\ conf.fast_track_timeout = 300
    /\ Heartbeat = isoformat(now - 300)

\* The last call was _get_node_next_steps; its steps and its current step.
NextStepsOf(step_type) ==
    /\ call.op = "_get_node_next_steps"
    /\ call.arg[1] = step_type

StepsOf(step_type) ==
    StepLists[node.driver_internal_info[step_type \o "_steps"]]

CurrentStepOf(step_type) ==
    IF step_type = "clean" THEN node.clean_step ELSE node.deploy_step

PowerActionAt(log, i, new_state) ==
    log[i] = <<"power_set", "INFO", "START", new_state>>

\* The scope powered the node on at its entry.
PoweredOnAtEntry(log) ==
    InLog(log, <<"power_set", "INFO", "END", states.POWER_ON>>)

\* After the body, a power action to POWER_OFF was started.
RestoredAtExit(log) ==
    \E i, j \in 1..Len(log) :
        /\ i < j
        /\ log[i] = <<"with", "body">>
        /\ PowerActionAt(log, j, states.POWER_OFF)

\* No boot device was set and no power action was started.
NoPowerOrBootChange(log) ==
    \A i \in 1..Len(log) :
        /\ log[i][1] \notin {"management", "power_set"}
        /\ log[i] # <<"time", "sleep">>
        /\ ~(log[i][1] = "power" /\ log[i][2] # "get_power_state")

NetworkConfiguration(c) == c.op = "power_state_for_network_configuration"

\* C26 as stated: on every exit path of the scope, the body raising
\* included, if the scope powered the node on at entry then POWER_OFF is
\* restored by a power action; and if need_power_on is false or the node
\* was not POWER_OFF at entry, the scope changes no boot device and starts
\* no power action.
C26_PowerStateRestoredOnEveryExit ==
    [][NetworkConfiguration(call') =>
          /\ PoweredOnAtEntry(call'.log) => RestoredAtExit(call'.log)
          /\ (call'.arg[1] = "False" \/ hw # states.POWER_OFF)
                => NoPowerOrBootChange(call'.log)]_vars

\* C26, what the code does: the power state is restored when the body
\* returns, and when the body raises the node is left powered on.
C26_PowerStateRestoredWhenBodyReturns ==
    [][NetworkConfiguration(call') =>
          /\ PoweredOnAtEntry(call'.log)
                => (RestoredAtExit(call'.log) <=>
                        (InLog(call'.log, <<"with", "body">>)
                         /\ call'.arg[3] = "ok"))
          /\ (call'.arg[1] = "False" \/ hw # states.POWER_OFF)
                => NoPowerOrBootChange(call'.log)]_vars

\* The scope powered the node on, its body raised, and the node is left
\* powered on.
C26_BodyRaisedNodeLeftOn ==
    /\ NetworkConfiguration(call)
    /\ PoweredOnAtEntry(call.log)
    /\ call.exc = "NetworkError"
    /\ InLog(call.log, <<"with", "body">>)
    /\ hw = states.POWER_ON
    /\ db.power_state = states.POWER_ON

ResumeOperations ==
    [notify_conductor_resume_clean |-> "continue_node_clean",
     notify_conductor_resume_deploy |-> "continue_node_deploy"]

\* C27: notify_conductor_resume_clean and notify_conductor_resume_deploy
\* release the task's node lock before the continue_node_<op> RPC is sent:
\* in every execution the release_resources call precedes the RPC call, and
\* the RPC is the one of the operation.
C27_LockReleasedBeforeResumeRPC ==
    call.op \in DOMAIN ResumeOperations =>
        /\ \A j \in 1..Len(call.log) :
              call.log[j][2] \in {"continue_node_clean",
                                  "continue_node_deploy"} =>
                  /\ call.log[j] = <<"rpc", ResumeOperations[call.op]>>
                  /\ \E i \in 1..(j - 1) :
                        call.log[i] = <<"task", "release_resources">>
        /\ call.exc = NoExc =>
              InLog(call.log, <<"rpc", ResumeOperations[call.op]>>)

\* The resume of a deployment was sent.
C27_Witness ==
    /\ call.op = "notify_conductor_resume_deploy"
    /\ call.exc = NoExc
    /\ call.log = <<<<"rpc", "get_topic_for">>,
                    <<"task", "release_resources">>,
                    <<"rpc", "continue_node_deploy">>>>


(***************************************************************************)
(* Failures of a deployment and of a cleaning: the claims (SpecFailures)   *)
(***************************************************************************)
\* The handler called its own clean-up on the deploy interface, which
\* raised.
OwnCleanUpRaised(c) ==
    \/ /\ c.op = "deploying_error_handler"
       /\ InLog(c.log, <<"deploy", "clean_up">>)
       /\ c.arg[4] # "ok"
    \/ /\ c.op = "cleaning_error_handler"
       /\ InLog(c.log, <<"deploy", "tear_down_cleaning">>)
       /\ c.arg[4] # "ok"

\* After its clean-up on the deploy interface, the handler saved the node
\* and then, if fail is TRUE, fired the fail event.
WentOnAfterCleanUp(log, fail) ==
    \E i, j \in 1..Len(log) :
        /\ i < j
        /\ log[i][1] = "deploy"
        /\ log[j] = <<"node", "save">>
        /\ fail => \E k \in (j + 1)..Len(log) :
                       log[k][1] = "process_event" /\ log[k][2] = "fail"

CleanStates == {states.CLEANING, states.CLEANWAIT, states.CLEANFAIL}

\* C28: deploying_error_handler and cleaning_error_handler never propagate
\* an exception raised by their own clean-up call on the driver
\* (deploy.clean_up, deploy.tear_down_cleaning): it is caught and folded
\* into the message stored in last_error, and the handler still saves the
\* node, clears the step data of a node in the states of its operation, and
\* fires the fail event (cleaning_error_handler: when set_fail_state is
\* true and the node is not in CLEANFAIL).
C28_OwnCleanUpFailureIsFolded ==
    [][OwnCleanUpRaised(call') =>
          /\ call'.exc \in {NoExc, "InvalidState"}
          /\ call'.exc = "InvalidState" =>
                db.provision_state \notin DOMAIN FailTransitions
          /\ Len(db'.last_error) > 1
          /\ IF call'.op = "deploying_error_handler"
             THEN /\ db'.last_error[1] = ErrmsgOf(call')
                  /\ WentOnAfterCleanUp(call'.log, TRUE)
                  /\ db.provision_state = states.DEPLOYING =>
                        /\ db'.deploy_step = "{}"
                        /\ db'.driver_internal_info["deploy_step_index"]
                              = Absent
             ELSE /\ db'.last_error =
                        <<call'.arg[1],
                          ". Also failed to tear down cleaning.">>
                  /\ WentOnAfterCleanUp(
                        call'.log,
                        call'.arg[3] = "True"
                        /\ db.provision_state # states.CLEANFAIL)
                  /\ db.provision_state \in CleanStates =>
                        /\ db'.clean_step = "{}"
                        /\ db'.driver_internal_info["clean_step_index"]
                              = Absent]_vars

\* The tear down of a cleaning raised, and the node is in CLEANFAIL with
\* the failure in its last_error.
C28_Witness ==
    /\ OwnCleanUpRaised(call)
    /\ call.op = "cleaning_error_handler"
    /\ call.exc = NoExc
    /\ db.provision_state = states.CLEANFAIL
    /\ FiredFail(call.log)
    /\ Len(db.last_error) > 1

\* The message that cleaning_error_handler stores: msg, extended when the
\* tear down was asked for and raised.
CleaningMessage(c) ==
    IF c.arg[2] = "True" /\ c.arg[4] # "ok"
    THEN <<c.arg[1], ". Also failed to tear down cleaning.">>
    ELSE <<c.arg[1]>>

\* C29: after cleaning_error_handler(task, msg) the persisted node has
\* fault = CLEAN_FAILURE, maintenance = True and last_error set to the
\* (possibly extended) msg; maintenance_reason keeps its previous value when
\* one was set and becomes the msg otherwise.
C29_CleaningFailurePutsNodeInMaintenance ==
    [][call'.op = "cleaning_error_handler" =>
          /\ db'.fault = "clean failure"
          /\ db'.maintenance
          /\ db'.last_error = CleaningMessage(call')
          /\ db'.maintenance_reason =
                IF Truthy(db.maintenance_reason) THEN db.maintenance_reason
                ELSE CleaningMessage(call')]_vars

\* The operator's reason of maintenance is still there after a cleaning
\* failed and its tear down too.
C29_Witness ==
    /\ call.op = "cleaning_error_handler"
    /\ db.maintenance_reason = <<"operator">>
    /\ db.last_error = <<"boom", ". Also failed to tear down cleaning.">>
    /\ db.fault = "clean failure"

\* The keys of driver_internal_info that cleaning_error_handler removes,
\* and the keys of a cleaning that it leaves.
CleaningKeysRemoved ==
    {"clean_step_index", "cleaning_reboot", "cleaning_polling",
     "skip_current_clean_step", "agent_url"}

CleaningKeysLeft ==
    {"steps_validated", "agent_cached_clean_steps", "clean_steps"}

CleanInternalKeys ==
    {"clean_step_index", "cleaning_reboot", "cleaning_polling",
     "skip_current_clean_step", "steps_validated",
     "agent_cached_clean_steps"}

\* C30 as stated: when cleaning_error_handler runs on a node in CLEANING,
\* CLEANWAIT or CLEANFAIL, afterwards clean_step is empty and the
\* clean-internal keys (clean_step_index, cleaning_reboot,
\* cleaning_polling, skip_current_clean_step, steps_validated,
\* agent_cached_clean_steps) are absent; in any other provision state
\* clean_step and those keys are unchanged.
C30_CleaningFailureClearsCleanInternalKeys ==
    [][call'.op = "cleaning_error_handler" =>
          IF db.provision_state \in CleanStates
          THEN /\ db'.clean_step = "{}"
               /\ \A k \in CleanInternalKeys :
                     db'.driver_internal_info[k] = Absent
          ELSE /\ db'.clean_step = db.clean_step
               /\ \A k \in CleanInternalKeys :
                     db'.driver_internal_info[k] =
                         db.driver_internal_info[k]]_vars

\* C30, amended: on a node in CLEANING, CLEANWAIT or CLEANFAIL, afterwards
\* clean_step is empty and clean_step_index, cleaning_reboot,
\* cleaning_polling, skip_current_clean_step and agent_url are absent,
\* while steps_validated, agent_cached_clean_steps and clean_steps are as
\* they were; in any other provision state clean_step and all these keys
\* are unchanged.
C30_CleaningFailureClearsStepKeys ==
    [][call'.op = "cleaning_error_handler" =>
          /\ \A k \in CleaningKeysLeft :
                db'.driver_internal_info[k] = db.driver_internal_info[k]
          /\ IF db.provision_state \in CleanStates
             THEN /\ db'.clean_step = "{}"
                  /\ \A k \in CleaningKeysRemoved :
                        db'.driver_internal_info[k] = Absent
             ELSE /\ db'.clean_step = db.clean_step
                  /\ \A k \in CleaningKeysRemoved :
                        db'.driver_internal_info[k] =
                            db.driver_internal_info[k]]_vars

\* A cleaning failed, the step is cleared and its index removed, and
\* steps_validated and the cached clean steps are still there.
C30_Witness ==
    /\ call.op = "cleaning_error_handler"
    /\ db.provision_state = states.CLEANFAIL
    /\ db.clean_step = "{}"
    /\ db.driver_internal_info["clean_step_index"] = Absent
    /\ db.driver_internal_info["steps_validated"] = "set"
    /\ db.driver_internal_info["agent_cached_clean_steps"] = "set"

(***************************************************************************)
(* The fail event of a failed cleaning                                     *)
(***************************************************************************)
\* The fail events of a call, in the order in which they were fired.
FailEvents(log) ==
    SelectSeq(log, LAMBDA e : e[1] = "process_event" /\ e[2] = "fail")

\* C31: cleaning_error_handler fires the fail event exactly when
\* set_fail_state is true and the node's provision_state is not CLEANFAIL,
\* and it fires it once, after the save of last_error, fault and
\* maintenance (they are in the database even when the state machine
\* rejects the event); the event's target state is MANAGEABLE when the
\* node's target_provision_state is MANAGEABLE, and None otherwise.
C31_CleaningFailEventAfterSave ==
    [][call'.op = "cleaning_error_handler" =>
          /\ FiredFail(call'.log)
                <=> (/\ call'.arg[3] = "True"
                     /\ db.provision_state # states.CLEANFAIL)
          /\ FiredFail(call'.log) =>
                /\ SavedBeforeFail(call'.log)
                /\ FailEvents(call'.log) =
                       << <<"process_event", "fail",
                            IF db.target_provision_state = states.MANAGEABLE
                            THEN states.MANAGEABLE ELSE None>> >>
          /\ call'.exc = "InvalidState" =>
                /\ CountInLog(call'.log, <<"node", "save">>) = 1
                /\ db'.fault = "clean failure"
                /\ db'.maintenance
                /\ InText(db'.last_error, "boom")
                /\ db'.provision_state = db.provision_state]_vars

\* A manual cleaning failed: the event was fired towards MANAGEABLE after
\* the save, and the node is in CLEANFAIL with its error saved.
C31_Witness ==
    /\ call.op = "cleaning_error_handler"
    /\ call.arg[3] = "True"
    /\ call.exc = NoExc
    /\ SavedBeforeFail(call.log)
    /\ InLog(call.log, <<"process_event", "fail", states.MANAGEABLE>>)
    /\ db.provision_state = states.CLEANFAIL
    /\ db.target_provision_state = states.MANAGEABLE
    /\ db.fault = "clean failure"
    /\ db.maintenance
    /\ InText(db.last_error, "boom")


(***************************************************************************)
(* The take-over of a conductor                                            *)
(***************************************************************************)
TakeOverMessage == <<"Operation was aborted due to conductor take over">>

\* C32: abort_on_conductor_take_over never fires a state-machine event and
\* never changes provision_state or target_provision_state.  Under an
\* exclusive lock, on a node in CLEANFAIL it runs the cleaning handler with
\* set_fail_state=False (the cleaning is torn down, the node is put in
\* maintenance with the clean failure fault and the take-over message as
\* its last_error, and saved); on a node in any other state it only sets
\* last_error to the take-over message and saves.
C32_TakeOverFiresNoEvent ==
    [][call'.op = "abort_on_conductor_take_over" =>
          /\ \A i \in 1..Len(call'.log) : call'.log[i][1] # "process_event"
          /\ db'.provision_state = db.provision_state
          /\ db'.target_provision_state = db.target_provision_state
          /\ call'.exc = NoExc =>
                IF db.provision_state = states.CLEANFAIL
                THEN /\ call'.log[1] = <<"deploy", "tear_down_cleaning">>
                     /\ call'.log[Len(call'.log)] = <<"node", "save">>
                     /\ db'.fault = "clean failure"
                     /\ db'.maintenance
                     /\ db'.last_error[1] = TakeOverMessage[1]
                ELSE /\ call'.log = << <<"node", "save">> >>
                     /\ db' = [db EXCEPT !.last_error = TakeOverMessage]]_vars

\* The operation ran under an exclusive lock on a node in CLEANFAIL, which
\* is still in CLEANFAIL, in maintenance, with the take-over message.
C32_Witness ==
    /\ call.op = "abort_on_conductor_take_over"
    /\ call.exc = NoExc
    /\ db.provision_state = states.CLEANFAIL
    /\ db.maintenance
    /\ db.fault = "clean failure"
    /\ InText(db.last_error, TakeOverMessage[1])
    /\ InLog(call.log, <<"deploy", "tear_down_cleaning">>)

\* The operation ran on a node that was deploying: only its last_error
\* changed.
C32_WitnessElsewhere ==
    /\ call.op = "abort_on_conductor_take_over"
    /\ call.exc = NoExc
    /\ db.provision_state = states.DEPLOYWAIT
    /\ db.last_error = TakeOverMessage
    /\ ~db.maintenance


(***************************************************************************)
(* The wipes of the keys of a deployment and of a cleaning                 *)
(***************************************************************************)
TokenAndUrl ==
    {"agent_secret_token", "agent_secret_token_pregenerated", "agent_url"}

\* The key of the steps of an operation, and its transient keys.
StepsKey ==
    [wipe_deploy_internal_info |-> "deploy_steps",
     wipe_cleaning_internal_info |-> "clean_steps"]

TransientKeys ==
    [wipe_deploy_internal_info |->
        {"agent_cached_deploy_steps", "deploy_step_index",
         "deployment_reboot", "deployment_polling",
         "skip_current_deploy_step", "steps_validated"},
     wipe_cleaning_internal_info |->
        {"agent_cached_clean_steps", "clean_step_index", "cleaning_reboot",
         "cleaning_polling", "skip_current_clean_step", "steps_validated"}]

\* C33: wipe_deploy_internal_info and wipe_cleaning_internal_info remove
\* agent_secret_token, agent_secret_token_pregenerated and agent_url
\* together when fast_track_able(task) is false, and leave all three as
\* they were when it is true; in both cases <op>_steps is set to None and
\* the transient keys of the operation are removed.  Every other key, every
\* other field of the node and the database are left alone.
C33_WipeFollowsFastTrack ==
    [][call'.op \in DOMAIN StepsKey =>
          LET able == fast_track_able(
                          Holding,
                          [should_write_image |-> call'.arg[1] = "True"])
              before == node.driver_internal_info
              after == node'.driver_internal_info
          IN  /\ \A k \in TokenAndUrl :
                    after[k] = IF able THEN before[k] ELSE Absent
              /\ after[StepsKey[call'.op]] = None
              /\ \A k \in TransientKeys[call'.op] : after[k] = Absent
              /\ \A k \in DiiKeys \ (TokenAndUrl \cup TransientKeys[call'.op]
                                     \cup {StepsKey[call'.op]}) :
                    after[k] = before[k]
              /\ node' = [node EXCEPT !.driver_internal_info = after]
              /\ db' = db
              /\ call'.exc = NoExc
              /\ call'.log = <<>>]_vars

\* The keys of a cleaning were wiped on a node that fast track allows: the
\* token, its flag and the URL are still there, the steps are None.
C33_Witness ==
    /\ call.op = "wipe_cleaning_internal_info"
    /\ call.arg = <<"True">>
    /\ conf.fast_track
    /\ node.last_error = NoText
    /\ \A k \in TokenAndUrl : node.driver_internal_info[k] \notin {Absent, None}
    /\ node.driver_internal_info["clean_steps"] = None
    /\ node.driver_internal_info["clean_step_index"] = Absent
    /\ db.driver_internal_info["clean_step_index"] = "set"

\* The keys of a deployment were wiped on a node that fast track does not
\* allow: the token, its flag and the URL are gone.
C33_WitnessWiped ==
    /\ call.op = "wipe_deploy_internal_info"
    /\ call.arg = <<"True">>
    /\ conf.fast_track
    /\ node.last_error # NoText
    /\ \A k \in TokenAndUrl :
          /\ node.driver_internal_info[k] = Absent
          /\ db.driver_internal_info[k] = "set" \/ db.driver_internal_info[k] = "True"
    /\ node.driver_internal_info["deploy_steps"] = None


(***************************************************************************)
(* The volumes of an active node                                           *)
(***************************************************************************)
PoweringOn == {states.POWER_ON, states.REBOOT, states.SOFT_REBOOT}

\* attach_volumes was called before every call that changes the power.
AttachedBeforePower(log) ==
    \E i \in 1..Len(log) :
        /\ log[i] = <<"storage", "attach_volumes">>
        /\ \A j \in 1..Len(log) :
              (log[j][1] = "power"
               /\ log[j][2] \in {"set_power_state", "reboot"}) => i < j

\* C34: in a power_action under an exclusive lock whose target is POWER_ON
\* (new_state POWER_ON, REBOOT or SOFT_REBOOT) on a node whose
\* provision_state is ACTIVE, the power driver is asked to change the power
\* only after storage.attach_volumes was called; when attach_volumes raises,
\* the power driver is not asked to change the power, the error is raised
\* to the caller, and target_power_state is NOSTATE and last_error tells the
\* error, in the node object and in the database, with an ERROR
\* notification.
C34_AttachBeforePowerOn ==
    [][(/\ PowerActionOf(call', PoweringOn)
        /\ db.provision_state = states.ACTIVE) =>
          /\ PowerDriverCalled(call'.log) => AttachedBeforePower(call'.log)
          /\ call'.exc = "StorageError" =>
                /\ InLog(call'.log, <<"storage", "attach_volumes">>)
                /\ ~PowerDriverCalled(call'.log)
                /\ hw' = hw
                /\ \A n \in {node', db'} :
                      /\ n.target_power_state = states.NOSTATE
                      /\ InText(n.last_error, "StorageError")
                      /\ n.power_state = db.power_state
                /\ InLog(call'.log,
                         <<"power_set", "ERROR", "ERROR", call'.arg[1]>>)
                /\ ~InLog(call'.log,
                          <<"power_set", "INFO", "END", call'.arg[1]>>)]_vars

\* A reboot of an active node failed in attach_volumes: the power driver was
\* not called and the error is recorded.
C34_Witness ==
    /\ PowerActionOf(call, {states.REBOOT})
    /\ db.provision_state = states.ACTIVE
    /\ call.exc = "StorageError"
    /\ InLog(call.log, <<"storage", "attach_volumes">>)
    /\ ~PowerDriverCalled(call.log)
    /\ db.target_power_state = states.NOSTATE
    /\ InText(db.last_error, "StorageError")

\* A power on of an active node that was off: the volumes were attached,
\* then the power driver was called.
C34_WitnessAttached ==
    /\ PowerActionOf(call, {states.POWER_ON})
    /\ db.provision_state = states.ACTIVE
    /\ call.exc = NoExc
    /\ AttachedBeforePower(call.log)
    /\ PowerDriverCalled(call.log)
    /\ db.power_state = states.POWER_ON


\* storage.detach_volumes was called: the power off of an active node had
\* succeeded.
DetachCalled(log) == InLog(log, <<"storage", "detach_volumes">>)

\* The warning that is all that is left of a StorageError of detach_volumes.
DetachFailureLogged(log) ==
    InLog(log, <<"LOG", "warning", "Volume detachment failed">>)

\* The database after a power off that succeeded.
PoweredOffAndSaved ==
    /\ db.power_state = states.POWER_OFF
    /\ db.target_power_state = states.NOSTATE
    /\ db.last_error = NoText
    /\ hw = states.POWER_OFF

\* C35 as stated: after a successful power-off of a node whose
\* provision_state is ACTIVE, whatever detach_volumes did, power_action
\* returns normally, and the persisted state is power_state=POWER_OFF,
\* target_power_state=NOSTATE, last_error None.
C35_DetachFailureNeverPropagates ==
    (PowerActionOf(call, PowerStates) /\ DetachCalled(call.log))
        => call.exc = NoExc /\ PoweredOffAndSaved

\* C35, amended: after a successful power-off of a node whose
\* provision_state is ACTIVE, a StorageError of detach_volumes is logged
\* and not raised, and power_action returns normally; an exception of
\* another class is raised to the caller, after the END notification and
\* with no ERROR notification.  In both cases the persisted state is
\* power_state=POWER_OFF, target_power_state=NOSTATE, last_error None.
C35_DetachStorageErrorNotPropagated ==
    (PowerActionOf(call, PowerStates) /\ DetachCalled(call.log))
        => /\ call.exc \in {NoExc} \cup (DetachOutcomes
                                          \ {"ok", "StorageError"})
           /\ DetachFailureLogged(call.log) => call.exc = NoExc
           /\ PoweredOffAndSaved
           /\ node = db
           /\ InLog(call.log, <<"power_set", "INFO", "END", call.arg[1]>>)
           /\ ~InLog(call.log, <<"power_set", "ERROR", "ERROR", call.arg[1]>>)

\* detach_volumes raised StorageError after a power off of an active node,
\* and the power action returned normally.
C35_Witness ==
    /\ PowerActionOf(call, {states.POWER_OFF})
    /\ db.provision_state = states.ACTIVE
    /\ DetachFailureLogged(call.log)
    /\ call.exc = NoExc
    /\ PoweredOffAndSaved


(***************************************************************************)
(* The notifications of a power action                                     *)
(***************************************************************************)
\* The notifications of a call, in the order in which they were emitted.
Notifications(log) == SelectSeq(log, LAMBDA e : e[1] = "power_set")

StartOf(new_state) == <<"power_set", "INFO", "START", new_state>>

EndOf(new_state) == <<"power_set", "INFO", "END", new_state>>

ErrorOf(new_state) == <<"power_set", "ERROR", "ERROR", new_state>>

\* C37: every power_action under an exclusive lock emits START before it
\* does anything else, and then exactly one closing notification: its
\* notifications are START, END or START, ERROR.  It is END when the call
\* returns normally (skip path or driver success), and ERROR when the
\* power-state query, attach_volumes or the power driver call raised, that
\* is when the call raises without having got to detach_volumes.
C37_OneClosingNotification ==
    PowerActionOf(call, PowerStates) =>
        /\ call.log[1] = StartOf(call.arg[1])
        /\ Notifications(call.log) \in
               {<<StartOf(call.arg[1]), EndOf(call.arg[1])>>,
                <<StartOf(call.arg[1]), ErrorOf(call.arg[1])>>}
        /\ call.exc = NoExc => InLog(call.log, EndOf(call.arg[1]))
        /\ InLog(call.log, ErrorOf(call.arg[1]))
              <=> (call.exc # NoExc /\ ~DetachCalled(call.log))

\* The power driver raised: START, then the driver call, then ERROR alone.
C37_Witness ==
    /\ PowerActionOf(call, {states.POWER_OFF})
    /\ call.exc = "DriverOperationError"
    /\ PowerDriverCalled(call.log)
    /\ Notifications(call.log) =
           <<StartOf(states.POWER_OFF), ErrorOf(states.POWER_OFF)>>

\* The skip path: START, then END alone, and the call returned.
C37_WitnessSkipped ==
    /\ PowerActionOf(call, {states.POWER_ON})
    /\ call.exc = NoExc
    /\ ~PowerDriverCalled(call.log)
    /\ Notifications(call.log) =
           <<StartOf(states.POWER_ON), EndOf(states.POWER_ON)>>


(***************************************************************************)
(* The wipe of a power off that fails                                      *)
(***************************************************************************)
\* The worker's power off is about to call the power driver.
PowerOffPrepared(t) == t.pc = "prepared" /\ t.new_state = states.POWER_OFF

\* C38: in a power off that is not skipped, the removal of agent_url, of a
\* token that is not pregenerated and of the cached steps is in the
\* database, with the target POWER_OFF, when the power driver is about to be
\* called; and when the driver call then fails, the database has
\* target_power_state NOSTATE, the power_state it had, the error, and still
\* no agent_url, no cached steps and no token that is not pregenerated.
C38_WipeSurvivesFailedPowerOff ==
    [][\A w \in Workers :
          /\ PowerOffPrepared(tasks'[w]) =>
                /\ Wiped(db')
                /\ db'.target_power_state = states.POWER_OFF
          /\ (/\ PowerOffPrepared(tasks[w])
              /\ tasks'[w].pc = "done"
              /\ db'.last_error # NoText) =>
                /\ Wiped(db')
                /\ db'.target_power_state = states.NOSTATE
                /\ db'.power_state = db.power_state
                /\ db'.driver_internal_info = db.driver_internal_info
                /\ hw' = hw]_vars

\* A power off failed in the driver: the node is still on, with no target,
\* and the token and the URL it had are gone.
C38_Witness ==
    \E w \in Workers :
        /\ tasks[w].pc = "done"
        /\ tasks[w].new_state = states.POWER_OFF
        /\ InText(db.last_error, "DriverOperationError")
        /\ db.power_state = states.POWER_ON
        /\ db.target_power_state = states.NOSTATE
        /\ db.driver_internal_info["agent_url"] = Absent
        /\ db.driver_internal_info["agent_secret_token"] = Absent
        /\ tasks[w].node = db


(***************************************************************************)
(* The vendor of a node: the claims                                        *)
(***************************************************************************)
\* The lock was upgraded before the node was saved.
UpgradedBeforeSave(log) ==
    \E i \in 1..Len(log) :
        /\ log[i] = <<"task", "upgrade_lock">>
        /\ \A j \in 1..Len(log) : log[j] = <<"node", "save">> => i < j

\* C36: node_cache_vendor never raises, and it writes properties.vendor
\* only after the task's lock has been upgraded to exclusive.  When
\* properties.vendor is already set it makes no driver call and changes
\* nothing.  When the detection returns nothing, raises
\* UnsupportedDriverExtension or any other exception, or when the upgrade
\* of a shared lock fails, it changes no property and saves nothing.
\* Otherwise the vendor that was detected is saved.
C36_VendorWrittenUnderExclusiveLock ==
    [][call'.op = "node_cache_vendor" =>
          LET detected == call'.arg[2]
              upgraded == call'.arg[1] = "False" \/ call'.arg[3] = "ok"
          IN  /\ call'.exc = NoExc
              /\ (Saved(call'.log) \/ db' # db \/ node' # node) =>
                    /\ UpgradedBeforeSave(call'.log)
                    /\ ~call'.shared
              /\ db.properties.vendor \notin NoVendor =>
                    /\ call'.log = <<>>
                    /\ db' = db
                    /\ node' = db
              /\ (\/ detected \notin {"Dell"}
                  \/ ~upgraded) =>
                    /\ ~Saved(call'.log)
                    /\ db' = db
                    /\ node' = db
              /\ (/\ db.properties.vendor \in NoVendor
                  /\ detected = "Dell"
                  /\ upgraded) =>
                    /\ call'.log = << <<"management", "detect_vendor">>,
                                      <<"task", "upgrade_lock">>,
                                      <<"node", "save">> >>
                    /\ db' = [db EXCEPT !.properties.vendor = "Dell"]
                    /\ node' = db']_vars

\* The vendor was detected under a shared lock, the lock was upgraded and
\* the vendor saved.
C36_Witness ==
    /\ call.op = "node_cache_vendor"
    /\ call.arg = <<"True", "Dell", "ok">>
    /\ ~call.shared
    /\ UpgradedBeforeSave(call.log)
    /\ Saved(call.log)
    /\ db.properties.vendor = "Dell"

\* The upgrade of the lock failed: nothing was saved, and the call returned.
C36_WitnessLockNotUpgraded ==
    /\ call.op = "node_cache_vendor"
    /\ call.arg = <<"True", "Dell", "LockAcquisitionFailed">>
    /\ call.shared
    /\ call.exc = NoExc
    /\ ~Saved(call.log)
    /\ db.properties.vendor \in NoVendor
    /\ node = db


(***************************************************************************)
(* The agent's keys after a deployment failed                              *)
(***************************************************************************)
DeployStates == {states.DEPLOYING, states.DEPLOYWAIT, states.DEPLOYFAIL}

\* C39: deploying_error_handler, called with a message that is not empty on
\* a node that is in DEPLOYING, DEPLOYWAIT or DEPLOYFAIL, removes
\* agent_secret_token, agent_secret_token_pregenerated and agent_url from
\* the node and from the database, with fast track enabled and whatever
\* should_write_image returns: the node it reloads has the last_error that
\* the handler saved, so fast_track_able is false.  This holds too when the
\* state machine then rejects the fail event.
C39_DeployFailureWipesTokenAndUrl ==
    [][(/\ call'.op = "deploying_error_handler"
        /\ ErrmsgOf(call') \notin {"None", ""}
        /\ db.provision_state \in DeployStates) =>
          /\ conf.fast_track
          /\ \A n \in {node', db'} :
                /\ \A k \in TokenAndUrl : n.driver_internal_info[k] = Absent
                /\ n.last_error # NoText
          /\ InLog(call'.log, <<"node", "refresh">>)
          /\ call'.log[1] = <<"node", "save">>]_vars

\* A deployment failed on a node with a token, its flag and the agent's
\* URL, with fast track enabled and an image to write: the three keys are
\* gone.
C39_Witness ==
    /\ call.op = "deploying_error_handler"
    /\ call.arg[5] = "True"
    /\ conf.fast_track
    /\ call.exc = NoExc
    /\ db.provision_state = states.DEPLOYFAIL
    /\ \A k \in TokenAndUrl : db.driver_internal_info[k] = Absent
    /\ db.driver_internal_info["deploy_steps"] = None
    /\ db.driver_internal_info["clean_steps"] = "set"
    /\ InText(db.last_error, "boom")


(***************************************************************************)
(* The last error of a rescue that failed                                  *)
(***************************************************************************)
CleanUpFailedText ==
    "Rescue operation was unsuccessful, clean up failed for node:"

UnhandledText ==
    "Rescue failed, but an unhandled exception was encountered while aborting:"

\* The power off of the handler raised: it was refused under a shared lock,
\* or it emitted the ERROR notification.
PowerOffRaised(c) ==
    c.shared \/ InLog(c.log, ErrorOf(states.POWER_OFF))

RescueCleanUpCalled(c) == InLog(c.log, <<"rescue", "clean_up">>)

\* C40: after rescuing_error_handler(task, msg), the last_error in the
\* database is msg exactly when the power off and rescue.clean_up both
\* completed without raising.  When the power off raises, rescue.clean_up
\* is not called, and last_error is the 'clean up failed' text for an
\* exception of the domain and the 'unhandled exception' text for any
\* other, followed by the exception: neither msg nor the error text of the
\* power action.  When rescue.clean_up raises, it is one of these two texts
\* as well.
C40_RescueLastErrorTellsTheCleanUp ==
    [][call'.op = "rescuing_error_handler" =>
          LET completed == /\ ~PowerOffRaised(call')
                           /\ RescueCleanUpCalled(call')
                           /\ call'.arg[4] = "ok"
              e == db'.last_error[Len(db'.last_error)]
          IN  /\ db'.last_error = <<call'.arg[1]>> <=> completed
              /\ PowerOffRaised(call') <=> ~RescueCleanUpCalled(call')
              /\ ~completed =>
                    /\ db'.last_error =
                           <<IF e \in IronicExceptions
                             THEN CleanUpFailedText ELSE UnhandledText, e>>
                    /\ e = IF call'.shared THEN "ExclusiveLockRequired"
                           ELSE IF PowerOffRaised(call') THEN call'.arg[3]
                           ELSE call'.arg[4]
              /\ node'.last_error = db'.last_error]_vars

\* The power driver raised an exception of the domain in the power off:
\* rescue.clean_up was not called and last_error is the 'clean up failed'
\* text.
C40_Witness ==
    /\ call.op = "rescuing_error_handler"
    /\ ~call.shared
    /\ call.arg[3] = "DriverOperationError"
    /\ PowerDriverCalled(call.log)
    /\ ~RescueCleanUpCalled(call)
    /\ db.last_error = <<CleanUpFailedText, "DriverOperationError">>

\* The power driver raised an exception that is not of the domain.
C40_WitnessUnhandled ==
    /\ call.op = "rescuing_error_handler"
    /\ call.arg[3] = "RuntimeError"
    /\ ~RescueCleanUpCalled(call)
    /\ db.last_error = <<UnhandledText, "RuntimeError">>

\* The power off and rescue.clean_up completed: last_error is the message.
C40_WitnessCompleted ==
    /\ call.op = "rescuing_error_handler"
    /\ call.arg[3] = "ok"
    /\ RescueCleanUpCalled(call)
    /\ db.last_error = <<"boom">>
    /\ db.power_state = states.POWER_OFF


====
